---- MODULE Spec2Model ----
(***************************************************************************)
(* A model of gosp (src/main.go): the development server's directive      *)
(* expansion engine, the compile pipeline, and the server the pipeline    *)
(* generates (compiledMainTemplate).                                       *)
(*                                                                         *)
(* Text is a sequence of one-character strings, so that the three         *)
(* regular expressions, strings.TrimSpace, strings.Split and strconv.Atoi *)
(* are modelled character by character.                                    *)
(***************************************************************************)
EXTENDS Integers, Sequences, FiniteSets, TLC

(***************************************************************************)
(* Text helpers (package strings).                                         *)
(***************************************************************************)

\* regexp's \s is [\t\n\f\r ]; strings.TrimSpace trims the same ASCII characters.
IsSpace(c) == c \in {" ", "\t", "\n", "\r", "\f"}

\* The character at index i, or "" when i is outside the text.
CharAt(s, i) == IF i >= 1 /\ i <= Len(s) THEN s[i] ELSE ""

\* Whether the literal lit stands in s at index i.
HasAt(s, i, lit) ==
    /\ i >= 1
    /\ i + Len(lit) - 1 <= Len(s)
    /\ SubSeq(s, i, i + Len(lit) - 1) = lit

\* strings.HasPrefix, strings.HasSuffix, strings.TrimPrefix
HasPrefix(s, p) == HasAt(s, 1, p)
HasSuffix(s, p) == Len(p) <= Len(s) /\ SubSeq(s, Len(s) - Len(p) + 1, Len(s)) = p
TrimPrefix(s, p) == IF HasPrefix(s, p) THEN SubSeq(s, Len(p) + 1, Len(s)) ELSE s

\* The least element of a non-empty set of integers.
Min(S) == CHOOSE x \in S : \A y \in S : x <= y

\* The first index >= i whose character is not white space (Len(s)+1 if none).
SkipSpaces(s, i) ==
    IF i > Len(s) THEN i
    ELSE Min({j \in i..(Len(s) + 1) : j > Len(s) \/ ~ IsSpace(s[j])})

\* The last index <= i whose character is not white space (0 if none).
SkipSpacesBack(s, i) ==
    IF i < 1 THEN i
    ELSE CHOOSE j \in 0..i :
             /\ j = 0 \/ ~ IsSpace(s[j])
             /\ \A k \in (j + 1)..i : IsSpace(s[k])

\* strings.TrimSpace
TrimSpace(s) ==
    LET a == SkipSpaces(s, 1)
        b == SkipSpacesBack(s, Len(s))
    IN  IF a > b THEN << >> ELSE SubSeq(s, a, b)

\* The first index >= i at which character c stands, or 0.
IndexFrom(s, i, c) ==
    LET at == {j \in i..Len(s) : s[j] = c}
    IN  IF at = {} THEN 0 ELSE Min(at)

\* strings.Contains for a one-character substring
Contains(s, c) == IndexFrom(s, 1, c) # 0

\* strings.Split(s, c) for a one-character separator: the parts, in order.
RECURSIVE Split(_, _)
Split(s, c) ==
    LET p == IndexFrom(s, 1, c)
    IN  IF p = 0 THEN << s >>
        ELSE << SubSeq(s, 1, p - 1) >> \o Split(SubSeq(s, p + 1, Len(s)), c)

\* strings.SplitN(s, c, 2): at most two parts, split at the first c.
SplitN2(s, c) ==
    LET p == IndexFrom(s, 1, c)
    IN  IF p = 0 THEN << s >>
        ELSE << SubSeq(s, 1, p - 1), SubSeq(s, p + 1, Len(s)) >>

(***************************************************************************)
(* The three directive forms (regexp, leftmost-first matching).  A match  *)
(* at index i is [end, from, to]: the index of its last character and the *)
(* bounds of capture group 1; NoMatch when the form does not match at i.  *)
(***************************************************************************)

NoMatch == [end |-> 0, from |-> 0, to |-> 0]

\* `<%@include\s+file="([^"]+)"\s*%>`
includeRegex(s, i) ==
    LET p1 == i + Len((* <%@include *) <<"<","%","@","i","n","c","l","u","d","e">>)
        p2 == SkipSpaces(s, p1)
        p3 == p2 + Len((* file=\" *) <<"f","i","l","e","=","\"">>)
        p4 == IndexFrom(s, p3, "\"")
        p5 == SkipSpaces(s, p4 + 1)
    IN  IF /\ HasAt(s, i, (* <%@include *) <<"<","%","@","i","n","c","l","u","d","e">>)
           /\ p2 > p1
           /\ HasAt(s, p2, (* file=\" *) <<"f","i","l","e","=","\"">>)
           /\ p4 > p3
           /\ HasAt(s, p5, (* %> *) <<"%",">">>)
        THEN [end |-> p5 + 1, from |-> p3, to |-> p4 - 1]
        ELSE NoMatch

\* `([^=][^%]*)\s*%>` with the group starting at index j: [^%]* is greedy and
\* stops at the first %, which must open the closing %>.
CodeBodyAt(s, j) ==
    LET p == IndexFrom(s, j + 1, "%")
    IN  IF j <= Len(s) /\ s[j] # "=" /\ p # 0 /\ CharAt(s, p + 1) = ">"
        THEN [end |-> p + 1, from |-> j, to |-> p - 1]
        ELSE NoMatch

\* The greedy `\s*` of the code form: it first takes all the white space up to j,
\* and gives characters back one at a time, down to index a, until the rest matches.
RECURSIVE CodeBodyFrom(_, _, _)
CodeBodyFrom(s, j, a) ==
    IF j < a THEN NoMatch
    ELSE IF CodeBodyAt(s, j) # NoMatch THEN CodeBodyAt(s, j)
    ELSE CodeBodyFrom(s, j - 1, a)

\* `<%\s*([^=][^%]*)\s*%>`
codeRegex(s, i) ==
    IF HasAt(s, i, (* <% *) <<"<","%">>)
    THEN CodeBodyFrom(s, SkipSpaces(s, i + 2), i + 2)
    ELSE NoMatch

\* `<%=\s*([^%]+)\s*%>`: the group ends before the first %, which must open %>;
\* `\s*` takes the leading white space but leaves the group one character.
outputRegex(s, i) ==
    LET a  == i + 3
        p  == IndexFrom(s, a, "%")
        sp == SkipSpaces(s, a)
    IN  IF HasAt(s, i, (* <%= *) <<"<","%","=">>) /\ p > a /\ CharAt(s, p + 1) = ">"
        THEN [end |-> p + 1, from |-> IF sp < p THEN sp ELSE p - 1, to |-> p - 1]
        ELSE NoMatch

\* The index at or after i of the leftmost match of each form, or 0.
NextInclude(s, i) ==
    LET at == {j \in i..Len(s) : includeRegex(s, j) # NoMatch}
    IN  IF at = {} THEN 0 ELSE Min(at)

NextCode(s, i) ==
    LET at == {j \in i..Len(s) : codeRegex(s, j) # NoMatch}
    IN  IF at = {} THEN 0 ELSE Min(at)

NextOutput(s, i) ==
    LET at == {j \in i..Len(s) : outputRegex(s, j) # NoMatch}
    IN  IF at = {} THEN 0 ELSE Min(at)


(***************************************************************************)
(* strconv.Atoi and strconv.Itoa on a 64-bit int.  A number is            *)
(* [neg, mag]: its sign and its magnitude as decimal digits, most         *)
(* significant first, without leading zeros (TLC's own integers are 32    *)
(* bits wide, too narrow for Go's int).                                    *)
(***************************************************************************)

DigitChars == << "0", "1", "2", "3", "4", "5", "6", "7", "8", "9" >>

IsDigit(c) == \E d \in 1..10 : DigitChars[d] = c

DigitVal(c) == (CHOOSE d \in 1..10 : DigitChars[d] = c) - 1

\* 2^63 - 1, 2^63 and 2^64
MaxInt64 == << 9,2,2,3,3,7,2,0,3,6,8,5,4,7,7,5,8,0,7 >>
MinInt64Mag == << 9,2,2,3,3,7,2,0,3,6,8,5,4,7,7,5,8,0,8 >>
TwoTo64 == << 1,8,4,4,6,7,4,4,0,7,3,7,0,9,5,5,1,6,1,6 >>

RECURSIVE StripZeros(_)
StripZeros(m) ==
    IF Len(m) > 1 /\ m[1] = 0 THEN StripZeros(Tail(m)) ELSE m

Front(m) == SubSeq(m, 1, Len(m) - 1)

\* a < b, for magnitudes without leading zeros
RECURSIVE LexLess(_, _)
LexLess(a, b) ==
    IF a = << >> THEN FALSE
    ELSE IF a[1] # b[1] THEN a[1] < b[1]
    ELSE LexLess(Tail(a), Tail(b))

MagLess(a, b) ==
    IF Len(a) # Len(b) THEN Len(a) < Len(b) ELSE LexLess(a, b)

RECURSIVE AddMagC(_, _, _)
AddMagC(a, b, carry) ==
    IF a = << >> /\ b = << >>
    THEN IF carry = 0 THEN << >> ELSE << carry >>
    ELSE LET da == IF a = << >> THEN 0 ELSE a[Len(a)]
             db == IF b = << >> THEN 0 ELSE b[Len(b)]
             t  == da + db + carry
         IN  Append(AddMagC(IF a = << >> THEN a ELSE Front(a),
                            IF b = << >> THEN b ELSE Front(b),
                            t \div 10),
                    t % 10)

AddMag(a, b) == StripZeros(AddMagC(a, b, 0))

\* a - b for a >= b
RECURSIVE SubMagB(_, _, _)
SubMagB(a, b, borrow) ==
    IF a = << >> THEN << >>
    ELSE LET da == a[Len(a)]
             db == (IF b = << >> THEN 0 ELSE b[Len(b)]) + borrow
         IN  Append(SubMagB(Front(a), IF b = << >> THEN b ELSE Front(b),
                            IF da < db THEN 1 ELSE 0),
                    IF da < db THEN da + 10 - db ELSE da - db)

SubMag(a, b) == StripZeros(SubMagB(a, b, 0))

Num(neg, mag) == [neg |-> neg /\ mag # << 0 >>, mag |-> mag]

\* The exact sum of two numbers.
NumAdd(m, n) ==
    IF m.neg = n.neg THEN Num(m.neg, AddMag(m.mag, n.mag))
    ELSE IF MagLess(m.mag, n.mag) THEN Num(n.neg, SubMag(n.mag, m.mag))
    ELSE Num(m.neg, SubMag(m.mag, n.mag))

\* Whether a number is an int64.
InInt64(n) ==
    IF n.neg THEN ~ MagLess(MinInt64Mag, n.mag) ELSE ~ MagLess(MaxInt64, n.mag)

\* Go's int addition: the exact sum of two int64 reduced modulo 2^64 into int64.
IntAdd(m, n) ==
    LET e == NumAdd(m, n)
    IN  IF InInt64(e) THEN e ELSE Num(~ e.neg, SubMag(TwoTo64, e.mag))

\* The digits of s after an optional sign.
Unsigned(s) ==
    IF s # << >> /\ s[1] \in {"+", "-"} THEN Tail(s) ELSE s

\* The number a text of the form [+-]?[0-9]+ writes.
Parse(s) ==
    Num(s[1] = "-",
        StripZeros([k \in 1..Len(Unsigned(s)) |-> DigitVal(Unsigned(s)[k])]))

IsDecimal(s) ==
    /\ Unsigned(s) # << >>
    /\ \A k \in 1..Len(Unsigned(s)) : IsDigit(Unsigned(s)[k])

\* strconv.Atoi(s) returns a nil error: base-10 syntax and within the int range.
AtoiOk(s) == IsDecimal(s) /\ InInt64(Parse(s))

\* strconv.Itoa
Itoa(n) ==
    (IF n.neg THEN << "-" >> ELSE << >>)
        \o [k \in 1..Len(n.mag) |-> DigitChars[n.mag[k] + 1]]

(***************************************************************************)
(* Paths (package path/filepath, with / as the separator).                 *)
(***************************************************************************)

\* Joins path elements with "/".
RECURSIVE JoinElems(_)
JoinElems(es) ==
    IF es = << >> THEN << >>
    ELSE IF Len(es) = 1 THEN es[1]
    ELSE es[1] \o << "/" >> \o JoinElems(Tail(es))

\* filepath.Clean's pass over the elements of a relative path: empty and "."
\* elements are dropped, ".." removes the element before it, or stays when there
\* is none to remove.
RECURSIVE CleanElems(_, _)
CleanElems(es, acc) ==
    IF es = << >> THEN acc
    ELSE IF es[1] = << >> \/ es[1] = << "." >> THEN CleanElems(Tail(es), acc)
    ELSE IF es[1] = << ".", "." >> /\ acc # << >> /\ acc[Len(acc)] # << ".", "." >>
         THEN CleanElems(Tail(es), Front(acc))
    ELSE CleanElems(Tail(es), Append(acc, es[1]))

\* filepath.Clean of a relative path
Clean(p) ==
    LET es == CleanElems(Split(p, "/"), << >>)
    IN  IF es = << >> THEN << "." >> ELSE JoinElems(es)

\* filepath.Join(a, b)
Join(a, b) == Clean(a \o << "/" >> \o b)

\* filepath.Rel(base, target) for a target below base; filepath.ToSlash changes
\* nothing where the separator is "/".
Rel(base, target) == TrimPrefix(Clean(target), Clean(base) \o << "/" >>)

(***************************************************************************)
(* Go string literals: text/template's printf "%q" writes one (strconv.   *)
(* Quote), and the Go compiler reads it back when the program is built.   *)
(***************************************************************************)

\* The characters that are written escaped, each with its escape's letter.
Escapes ==
    << << "\"", "\"" >>, << "\\", "\\" >>, << "\n", "n" >>, << "\t", "t" >>,
       << "\r", "r" >>, << "\f", "f" >> >>

EscapeChar(c) ==
    IF \E e \in 1..Len(Escapes) : Escapes[e][1] = c
    THEN << "\\", Escapes[CHOOSE e \in 1..Len(Escapes) : Escapes[e][1] = c][2] >>
    ELSE << c >>

\* strconv.Quote, character by character (the text is halved at each call)
RECURSIVE QuoteBody(_)
QuoteBody(s) ==
    IF s = << >> THEN << >>
    ELSE IF Len(s) = 1 THEN EscapeChar(s[1])
    ELSE QuoteBody(SubSeq(s, 1, Len(s) \div 2))
             \o QuoteBody(SubSeq(s, Len(s) \div 2 + 1, Len(s)))

Quote(s) == << "\"" >> \o QuoteBody(s) \o << "\"" >>

\* The value of an interpreted string literal's body: each backslash, from the
\* left, escapes the character after it.
RECURSIVE UnquoteBody(_)
UnquoteBody(q) ==
    LET p == IndexFrom(q, 1, "\\")
    IN  IF p = 0 \/ p = Len(q) THEN q
        ELSE SubSeq(q, 1, p - 1)
                 \o << Escapes[CHOOSE e \in 1..Len(Escapes) : Escapes[e][2] = q[p + 1]][1] >>
                 \o UnquoteBody(SubSeq(q, p + 2, Len(q)))

Unquote(q) == UnquoteBody(SubSeq(q, 2, Len(q) - 1))


(***************************************************************************)
(* The request context (echo.Context) a handler receives:                  *)
(*   [method, path, rawQuery, query, form, host, remoteaddr, params]       *)
(* query and form map a parameter's name to its first value; params are   *)
(* the values of the matched route's path parameters.                      *)
(***************************************************************************)

EmptyValues == [n \in {} |-> << >>]

\* c.Request().URL.String()
URLString(c) ==
    IF c.rawQuery = << >> THEN c.path ELSE c.path \o << "?" >> \o c.rawQuery

\* c.QueryParam(name): "" when the parameter is absent
QueryParam(c, name) ==
    IF name \in DOMAIN c.query THEN c.query[name] ELSE << >>

\* c.FormValue(name): the body's field, else the URL's query parameter, else ""
FormValue(c, name) ==
    IF name \in DOMAIN c.form THEN c.form[name] ELSE QueryParam(c, name)

(***************************************************************************)
(* The variable scope (TemplateProcessor.data): a function from a name to *)
(* a value [kind, str].  str is the text fmt.Sprintf("%v", value) writes: *)
(* the string itself for a string, Go's default formatting for the        *)
(* objects processTemplate seeds the scope with.                           *)
(***************************************************************************)

StringValue(s) == [kind |-> "string", str |-> s]

\* %v of a map[string][]string holding at most one key
SprintValues(m) ==
    IF DOMAIN m = {} THEN (* map[] *) <<"m","a","p","[","]">>
    ELSE LET k == CHOOSE n \in DOMAIN m : TRUE
         IN  (* map[ *) <<"m","a","p","[">> \o k \o (* :[ *) <<":","[">> \o m[k] \o (* ]] *) <<"]","]">>

\* %v of a []string
RECURSIVE SprintElems(_)
SprintElems(vs) ==
    IF vs = << >> THEN << >>
    ELSE IF Len(vs) = 1 THEN vs[1]
    ELSE vs[1] \o << " " >> \o SprintElems(Tail(vs))

SprintSlice(vs) == << "[" >> \o SprintElems(vs) \o << "]" >>

\* %v of the *http.Request: a struct dump that opens with the method
SprintRequest(c) == (* &{ *) <<"&","{">> \o c.method \o (*  ...} *) <<" ",".",".",".","}">>

Put(data, name, value) ==
    [n \in DOMAIN data \cup {name} |-> IF n = name THEN value ELSE data[n]]

\* fmt.Sprintf("%v", value)
Sprint(value) == value.str

\* processTemplate, "Add request data to template context"
SeedData(c) ==
    LET d0 == [n \in {} |-> StringValue(<< >>)]
        d1 == Put(d0, (* request *) <<"r","e","q","u","e","s","t">>, [kind |-> "request", str |-> SprintRequest(c)])
        d2 == Put(d1, (* params *) <<"p","a","r","a","m","s">>, [kind |-> "params", str |-> SprintSlice(c.params)])
        d3 == Put(d2, (* query *) <<"q","u","e","r","y">>, [kind |-> "query", str |-> SprintValues(c.query)])
        \* c.Request().Form is nil until the form is parsed
    IN  Put(d3, (* form *) <<"f","o","r","m">>, [kind |-> "form", str |-> SprintValues(EmptyValues)])

\* The generated program's processTemplate seeds request, query and form.
SeedDataCompiled(c) ==
    LET d0 == [n \in {} |-> StringValue(<< >>)]
        d1 == Put(d0, (* request *) <<"r","e","q","u","e","s","t">>, [kind |-> "request", str |-> SprintRequest(c)])
        d2 == Put(d1, (* query *) <<"q","u","e","r","y">>, [kind |-> "query", str |-> SprintValues(c.query)])
    IN  Put(d2, (* form *) <<"f","o","r","m">>, [kind |-> "form", str |-> SprintValues(EmptyValues)])

(***************************************************************************)
(* The code-block pass.                                                    *)
(***************************************************************************)

\* codeBlock with a first-write-wins scope: a name that is bound keeps its value.
codeBlockFirstWins(body, data) ==
    LET code     == TrimSpace(body)
        parts    == SplitN2(code, "=")
        varName  == TrimSpace(parts[1])
        varValue == TrimSpace(parts[2])
        quoted   == HasPrefix(varValue, << "\"" >>) /\ HasSuffix(varValue, << "\"" >>)
        stored   == IF quoted THEN SubSeq(varValue, 2, Len(varValue) - 1) ELSE varValue
    IN  IF ~ Contains(code, "=")
        THEN [data |-> data, assigned |-> << >>, fault |-> FALSE]
        ELSE IF quoted /\ Len(varValue) < 2
        THEN [data |-> data, assigned |-> << >>, fault |-> TRUE]
        ELSE [data     |-> IF varName \in DOMAIN data THEN data
                           ELSE Put(data, varName, StringValue(stored)),
              assigned |-> << [name |-> varName, value |-> stored] >>,
              fault    |-> FALSE]

\* The callback of processCodeExpressions on one match, whose group 1 is body:
\* [data, assigned, fault].  assigned is << [name, value] >> when the block stored
\* a variable.  varValue[1 : len(varValue)-1] of a one-character varValue is a
\* slice with bounds [1:0], on which Go raises a run-time panic: fault.
codeBlock(body, data) ==
    LET code     == TrimSpace(body)
        parts    == SplitN2(code, "=")
        varName  == TrimSpace(parts[1])
        varValue == TrimSpace(parts[2])
        quoted   == HasPrefix(varValue, << "\"" >>) /\ HasSuffix(varValue, << "\"" >>)
        stored   == IF quoted THEN SubSeq(varValue, 2, Len(varValue) - 1) ELSE varValue
    IN  IF ~ Contains(code, "=")
        THEN [data |-> data, assigned |-> << >>, fault |-> FALSE]
        ELSE IF quoted /\ Len(varValue) < 2
        THEN [data |-> data, assigned |-> << >>, fault |-> TRUE]
        ELSE [data     |-> Put(data, varName, StringValue(stored)),
              assigned |-> << [name |-> varName, value |-> stored] >>,
              fault    |-> FALSE]

\* codeRegex.ReplaceAllStringFunc from index i on: the matches are taken leftmost
\* first and left to right, each replaced by "".  The result is
\* [content, data, assigns, fault]; a panic ends the pass at once.
RECURSIVE CodeScan(_, _, _, _, _)
CodeScan(s, i, out, data, assigns) ==
    LET k == NextCode(s, i)
        m == codeRegex(s, k)
        r == codeBlock(SubSeq(s, m.from, m.to), data)
    IN  IF k = 0
        THEN [content |-> out \o SubSeq(s, i, Len(s)), data |-> data,
              assigns |-> assigns, fault |-> FALSE]
        ELSE IF r.fault
        THEN [content |-> out \o SubSeq(s, i, k - 1), data |-> data,
              assigns |-> assigns, fault |-> TRUE]
        ELSE CodeScan(s, m.end + 1, out \o SubSeq(s, i, k - 1), r.data,
                      assigns \o r.assigned)

\* TemplateProcessor.processCodeExpressions
processCodeExpressions(content, data) ==
    CodeScan(content, 1, << >>, data, << >>)

(***************************************************************************)
(* The output pass.                                                        *)
(***************************************************************************)

\* TemplateProcessor.handleRequestExpression
handleRequestExpression(expression, c) ==
    CASE expression = (* request.method *) <<"r","e","q","u","e","s","t",".","m","e","t","h","o","d">> -> c.method
      [] expression = (* request.url *) <<"r","e","q","u","e","s","t",".","u","r","l">> -> URLString(c)
      [] expression = (* request.host *) <<"r","e","q","u","e","s","t",".","h","o","s","t">> -> c.host
      [] expression = (* request.remoteaddr *) <<"r","e","q","u","e","s","t",".","r","e","m","o","t","e","a","d","d","r">> -> c.remoteaddr
      [] OTHER -> expression

\* The generated program's handleRequestExpression
handleRequestExpressionCompiled(expression, c) ==
    CASE expression = (* request.method *) <<"r","e","q","u","e","s","t",".","m","e","t","h","o","d">> -> c.method
      [] expression = (* request.url *) <<"r","e","q","u","e","s","t",".","u","r","l">> -> URLString(c)
      [] expression = (* request.host *) <<"r","e","q","u","e","s","t",".","h","o","s","t">> -> c.host
      [] OTHER -> expression

\* evaluateSimpleExpression taking the first two operands of however many.
evaluateSimpleExpressionFirstTwo(expression) ==
    LET parts == Split(expression, "+")
        left  == TrimSpace(parts[1])
        right == TrimSpace(parts[2])
    IN  IF Len(parts) >= 2
        THEN IF AtoiOk(left) /\ AtoiOk(right)
             THEN Itoa(IntAdd(Parse(left), Parse(right)))
             ELSE left \o right
        ELSE IF AtoiOk(TrimSpace(expression))
        THEN Itoa(Parse(TrimSpace(expression)))
        ELSE expression

\* TemplateProcessor.evaluateSimpleExpression
evaluateSimpleExpression(expression) ==
    LET parts == Split(expression, "+")
        left  == TrimSpace(parts[1])
        right == TrimSpace(parts[2])
    IN  IF Len(parts) = 2
        THEN IF AtoiOk(left) /\ AtoiOk(right)
             THEN Itoa(IntAdd(Parse(left), Parse(right)))
             ELSE left \o right
        ELSE IF AtoiOk(TrimSpace(expression))
        THEN Itoa(Parse(TrimSpace(expression)))
        ELSE expression

\* outputTag with the "+" rule tried before the three prefixes.
outputTagPlusFirst(expression, data, c) ==
    IF expression \in DOMAIN data THEN Sprint(data[expression])
    ELSE IF Contains(expression, "+")
    THEN evaluateSimpleExpression(expression)
    ELSE IF HasPrefix(expression, (* request. *) <<"r","e","q","u","e","s","t",".">>)
    THEN handleRequestExpression(expression, c)
    ELSE IF HasPrefix(expression, (* query. *) <<"q","u","e","r","y",".">>)
    THEN QueryParam(c, TrimPrefix(expression, (* query. *) <<"q","u","e","r","y",".">>))
    ELSE IF HasPrefix(expression, (* form. *) <<"f","o","r","m",".">>)
    THEN FormValue(c, TrimPrefix(expression, (* form. *) <<"f","o","r","m",".">>))
    ELSE expression

\* outputTag with an unrecognized expression rendered as the empty text.
outputTagNoEcho(expression, data, c) ==
    IF expression \in DOMAIN data THEN Sprint(data[expression])
    ELSE IF HasPrefix(expression, (* request. *) <<"r","e","q","u","e","s","t",".">>)
    THEN handleRequestExpression(expression, c)
    ELSE IF HasPrefix(expression, (* query. *) <<"q","u","e","r","y",".">>)
    THEN QueryParam(c, TrimPrefix(expression, (* query. *) <<"q","u","e","r","y",".">>))
    ELSE IF HasPrefix(expression, (* form. *) <<"f","o","r","m",".">>)
    THEN FormValue(c, TrimPrefix(expression, (* form. *) <<"f","o","r","m",".">>))
    ELSE IF Contains(expression, "+")
    THEN evaluateSimpleExpression(expression)
    ELSE << >>

\* The callback of processOutputTags on one match, whose trimmed group 1 is
\* expression: the text the tag is replaced by.
outputTag(expression, data, c) ==
    IF expression \in DOMAIN data THEN Sprint(data[expression])
    ELSE IF HasPrefix(expression, (* request. *) <<"r","e","q","u","e","s","t",".">>)
    THEN handleRequestExpression(expression, c)
    ELSE IF HasPrefix(expression, (* query. *) <<"q","u","e","r","y",".">>)
    THEN QueryParam(c, TrimPrefix(expression, (* query. *) <<"q","u","e","r","y",".">>))
    ELSE IF HasPrefix(expression, (* form. *) <<"f","o","r","m",".">>)
    THEN FormValue(c, TrimPrefix(expression, (* form. *) <<"f","o","r","m",".">>))
    ELSE IF Contains(expression, "+")
    THEN evaluateSimpleExpression(expression)
    ELSE expression

\* The generated program's callback: it has no rule for "+".
outputTagCompiled(expression, data, c) ==
    IF expression \in DOMAIN data THEN Sprint(data[expression])
    ELSE IF HasPrefix(expression, (* request. *) <<"r","e","q","u","e","s","t",".">>)
    THEN handleRequestExpressionCompiled(expression, c)
    ELSE IF HasPrefix(expression, (* query. *) <<"q","u","e","r","y",".">>)
    THEN QueryParam(c, TrimPrefix(expression, (* query. *) <<"q","u","e","r","y",".">>))
    ELSE IF HasPrefix(expression, (* form. *) <<"f","o","r","m",".">>)
    THEN FormValue(c, TrimPrefix(expression, (* form. *) <<"f","o","r","m",".">>))
    ELSE expression

\* The text one output tag is replaced by, in the engine of the given kind.
TagText(engine, expression, data, c) ==
    IF engine = "fs" THEN outputTag(expression, data, c)
    ELSE outputTagCompiled(expression, data, c)

\* outputRegex.ReplaceAllStringFunc from index i on: [content, tags], tags being
\* the [expr, text] of each tag replaced, in order.
RECURSIVE OutputScan(_, _, _, _, _, _, _)
OutputScan(engine, s, i, out, tags, data, c) ==
    LET k    == NextOutput(s, i)
        m    == outputRegex(s, k)
        expr == TrimSpace(SubSeq(s, m.from, m.to))
        text == TagText(engine, expr, data, c)
    IN  IF k = 0 THEN [content |-> out \o SubSeq(s, i, Len(s)), tags |-> tags]
        ELSE OutputScan(engine, s, m.end + 1, out \o SubSeq(s, i, k - 1) \o text,
                        Append(tags, [expr |-> expr, text |-> text]), data, c)

\* processOutputTags with the document's surrounding white space trimmed off.
processOutputTagsTrimmed(engine, content, data, c) ==
    LET r == OutputScan(engine, content, 1, << >>, << >>, data, c)
    IN  [content |-> TrimSpace(r.content), tags |-> r.tags]

\* processOutputTags with the pattern run again over the text it substituted.
processOutputTagsTwice(engine, content, data, c) ==
    LET r == OutputScan(engine, content, 1, << >>, << >>, data, c)
        t == OutputScan(engine, r.content, 1, << >>, << >>, data, c)
    IN  [content |-> t.content, tags |-> r.tags]

\* TemplateProcessor.processOutputTags
processOutputTags(engine, content, data, c) ==
    OutputScan(engine, content, 1, << >>, << >>, data, c)


(***************************************************************************)
(* The files and the requests the model runs on.                           *)
(***************************************************************************)

\* The --root flag's default
rootPath == (* ./root_http *) <<".","/","r","o","o","t","_","h","t","t","p">>

\* The files under the root directory, by their path relative to it.
SiteFiles ==
    << << (* index.html *) <<"i","n","d","e","x",".","h","t","m","l">>, (* <% who = \"World\" %><h1>Hello <%= who %></h1> *) <<"<","%"," ","w","h","o"," ","="," ","\"","W","o","r","l","d","\""," ","%",">","<","h","1",">","H","e","l","l","o"," ","<","%","="," ","w","h","o"," ","%",">","<","/","h","1",">">> >>,
       << (* late.html *) <<"l","a","t","e",".","h","t","m","l">>, (* <%= x %>|<% x = \"1\" %><% x = \"2\" %><%= x %> *) <<"<","%","="," ","x"," ","%",">","|","<","%"," ","x"," ","="," ","\"","1","\""," ","%",">","<","%"," ","x"," ","="," ","\"","2","\""," ","%",">","<","%","="," ","x"," ","%",">">> >>,
       << (* plain.html *) <<"p","l","a","i","n",".","h","t","m","l">>, (* <p>100% plain</p>\n *) <<"<","p",">","1","0","0","%"," ","p","l","a","i","n","<","/","p",">","\n">> >>,
       << (* sum.html *) <<"s","u","m",".","h","t","m","l">>, (* <%= 2 + 3 %>|<%= ab + cd %>|<%= -7 + 7 %>|<%= +5 %>|<%= 1 + 2 + 3 %> *) <<"<","%","="," ","2"," ","+"," ","3"," ","%",">","|","<","%","="," ","a","b"," ","+"," ","c","d"," ","%",">","|","<","%","="," ","-","7"," ","+"," ","7"," ","%",">","|","<","%","="," ","+","5"," ","%",">","|","<","%","="," ","1"," ","+"," ","2"," ","+"," ","3"," ","%",">">> >>,
       << (* big.html *) <<"b","i","g",".","h","t","m","l">>, (* <%= 9223372036854775807 + 1 %>|<%= 9223372036854775808 + 1 %> *) <<"<","%","="," ","9","2","2","3","3","7","2","0","3","6","8","5","4","7","7","5","8","0","7"," ","+"," ","1"," ","%",">","|","<","%","="," ","9","2","2","3","3","7","2","0","3","6","8","5","4","7","7","5","8","0","8"," ","+"," ","1"," ","%",">">> >>,
       << (* echo.html *) <<"e","c","h","o",".","h","t","m","l">>, (* <%= totallyUnknown %>|<%= params %>|<%= query %>|<%=  %> *) <<"<","%","="," ","t","o","t","a","l","l","y","U","n","k","n","o","w","n"," ","%",">","|","<","%","="," ","p","a","r","a","m","s"," ","%",">","|","<","%","="," ","q","u","e","r","y"," ","%",">","|","<","%","="," "," ","%",">">> >>,
       << (* req.html *) <<"r","e","q",".","h","t","m","l">>, (* <%= request.method %> <%= request.url %> <%= request.host %> <%= request.remoteaddr %> <%= request.other %> <%= query.q %> <%= form.f %> <%= query.none %> *) <<"<","%","="," ","r","e","q","u","e","s","t",".","m","e","t","h","o","d"," ","%",">"," ","<","%","="," ","r","e","q","u","e","s","t",".","u","r","l"," ","%",">"," ","<","%","="," ","r","e","q","u","e","s","t",".","h","o","s","t"," ","%",">"," ","<","%","="," ","r","e","q","u","e","s","t",".","r","e","m","o","t","e","a","d","d","r"," ","%",">"," ","<","%","="," ","r","e","q","u","e","s","t",".","o","t","h","e","r"," ","%",">"," ","<","%","="," ","q","u","e","r","y",".","q"," ","%",">"," ","<","%","="," ","f","o","r","m",".","f"," ","%",">"," ","<","%","="," ","q","u","e","r","y",".","n","o","n","e"," ","%",">">> >>,
       << (* order.html *) <<"o","r","d","e","r",".","h","t","m","l">>, (* <% request.method = \"M\" %><% a+b = \"S\" %><% form.f = \"F\" %><%= request.method %><%= a+b %><%= form.f %><%= query.1+2 %><%= form.1+2 %><%= request.1+2 %> *) <<"<","%"," ","r","e","q","u","e","s","t",".","m","e","t","h","o","d"," ","="," ","\"","M","\""," ","%",">","<","%"," ","a","+","b"," ","="," ","\"","S","\""," ","%",">","<","%"," ","f","o","r","m",".","f"," ","="," ","\"","F","\""," ","%",">","<","%","="," ","r","e","q","u","e","s","t",".","m","e","t","h","o","d"," ","%",">","<","%","="," ","a","+","b"," ","%",">","<","%","="," ","f","o","r","m",".","f"," ","%",">","<","%","="," ","q","u","e","r","y",".","1","+","2"," ","%",">","<","%","="," ","f","o","r","m",".","1","+","2"," ","%",">","<","%","="," ","r","e","q","u","e","s","t",".","1","+","2"," ","%",">">> >>,
       << (* inc.html *) <<"i","n","c",".","h","t","m","l">>, (* A<%@include file=\"a.html\" %>B<%@include file=\"missing.html\" %>C<%@include  file=\"b.html\"%>D *) <<"A","<","%","@","i","n","c","l","u","d","e"," ","f","i","l","e","=","\"","a",".","h","t","m","l","\""," ","%",">","B","<","%","@","i","n","c","l","u","d","e"," ","f","i","l","e","=","\"","m","i","s","s","i","n","g",".","h","t","m","l","\""," ","%",">","C","<","%","@","i","n","c","l","u","d","e"," "," ","f","i","l","e","=","\"","b",".","h","t","m","l","\"","%",">","D">> >>,
       << (* a.html *) <<"a",".","h","t","m","l">>, (* [a:<%@include file=\"sub/c.html\" %>] *) <<"[","a",":","<","%","@","i","n","c","l","u","d","e"," ","f","i","l","e","=","\"","s","u","b","/","c",".","h","t","m","l","\""," ","%",">","]">> >>,
       << (* sub/c.html *) <<"s","u","b","/","c",".","h","t","m","l">>, (* (c:<%@include file=\"b.html\" %>) *) <<"(","c",":","<","%","@","i","n","c","l","u","d","e"," ","f","i","l","e","=","\"","b",".","h","t","m","l","\""," ","%",">",")">> >>,
       << (* sub/b.html *) <<"s","u","b","/","b",".","h","t","m","l">>, (* WRONG *) <<"W","R","O","N","G">> >>,
       << (* b.html *) <<"b",".","h","t","m","l">>, (* <% y = \"b\" %><%= y %> *) <<"<","%"," ","y"," ","="," ","\"","b","\""," ","%",">","<","%","="," ","y"," ","%",">">> >>,
       << (* txt.html *) <<"t","x","t",".","h","t","m","l">>, (* <%@include file=\"frag.txt\" %>! *) <<"<","%","@","i","n","c","l","u","d","e"," ","f","i","l","e","=","\"","f","r","a","g",".","t","x","t","\""," ","%",">","!">> >>,
       << (* frag.txt *) <<"f","r","a","g",".","t","x","t">>, (* frag <%= 1 + 1 %> *) <<"f","r","a","g"," ","<","%","="," ","1"," ","+"," ","1"," ","%",">">> >>,
       << (* loop.html *) <<"l","o","o","p",".","h","t","m","l">>, (* L<%@include file=\"loop.html\" %> *) <<"L","<","%","@","i","n","c","l","u","d","e"," ","f","i","l","e","=","\"","l","o","o","p",".","h","t","m","l","\""," ","%",">">> >>,
       << (* quote.html *) <<"q","u","o","t","e",".","h","t","m","l">>, (* <% q = \" %>x<%= q %> *) <<"<","%"," ","q"," ","="," ","\""," ","%",">","x","<","%","="," ","q"," ","%",">">> >>,
       << (* peek.html *) <<"p","e","e","k",".","h","t","m","l">>, (* <%= x %>|<%= y %>|<%= who %> *) <<"<","%","="," ","x"," ","%",">","|","<","%","="," ","y"," ","%",">","|","<","%","="," ","w","h","o"," ","%",">">> >>,
       << (* bad.html *) <<"b","a","d",".","h","t","m","l">>, (* a<%@include file=a.html %>b<%=%>c *) <<"a","<","%","@","i","n","c","l","u","d","e"," ","f","i","l","e","=","a",".","h","t","m","l"," ","%",">","b","<","%","=","%",">","c">> >>,
       << (* ctl.html *) <<"c","t","l",".","h","t","m","l">>, (* <% if (request.method == \"POST\") { %>P<% } else { %>G<% } %>|<%= if (request.method %> *) <<"<","%"," ","i","f"," ","(","r","e","q","u","e","s","t",".","m","e","t","h","o","d"," ","=","="," ","\"","P","O","S","T","\"",")"," ","{"," ","%",">","P","<","%"," ","}"," ","e","l","s","e"," ","{"," ","%",">","G","<","%"," ","}"," ","%",">","|","<","%","="," ","i","f"," ","(","r","e","q","u","e","s","t",".","m","e","t","h","o","d"," ","%",">">> >>,
       << (* plus.html *) <<"p","l","u","s",".","h","t","m","l">>, (* <%= 1 + 2 + 3 %>|<%= 1++2 %>|<%= + + %>|<%= a+b+c %> *) <<"<","%","="," ","1"," ","+"," ","2"," ","+"," ","3"," ","%",">","|","<","%","="," ","1","+","+","2"," ","%",">","|","<","%","="," ","+"," ","+"," ","%",">","|","<","%","="," ","a","+","b","+","c"," ","%",">">> >>,
       << (* ping.html *) <<"p","i","n","g",".","h","t","m","l">>, (* P<%@include file=\"pong.html\" %> *) <<"P","<","%","@","i","n","c","l","u","d","e"," ","f","i","l","e","=","\"","p","o","n","g",".","h","t","m","l","\""," ","%",">">> >>,
       << (* pong.html *) <<"p","o","n","g",".","h","t","m","l">>, (* Q<%@include file=\"ping.html\" %> *) <<"Q","<","%","@","i","n","c","l","u","d","e"," ","f","i","l","e","=","\"","p","i","n","g",".","h","t","m","l","\""," ","%",">">> >>,
       << (* inj.html *) <<"i","n","j",".","h","t","m","l">>, (* <% z = \"0\" %><%= query.q %>|<%= form.f %>|<%= z %> *) <<"<","%"," ","z"," ","="," ","\"","0","\""," ","%",">","<","%","="," ","q","u","e","r","y",".","q"," ","%",">","|","<","%","="," ","f","o","r","m",".","f"," ","%",">","|","<","%","="," ","z"," ","%",">">> >> >>

\* The file system below rootPath: a function from a file's cleaned path to its
\* content.
Disk ==
    [p \in {Join(rootPath, SiteFiles[k][1]) : k \in 1..Len(SiteFiles)} |->
        SiteFiles[CHOOSE k \in 1..Len(SiteFiles) : Join(rootPath, SiteFiles[k][1]) = p][2]]

Request(method, path, rawQuery, query, form) ==
    [method |-> method, path |-> path, rawQuery |-> rawQuery, query |-> query,
     form |-> form, host |-> (* localhost:8080 *) <<"l","o","c","a","l","h","o","s","t",":","8","0","8","0">>, remoteaddr |-> (* 127.0.0.1:5000 *) <<"1","2","7",".","0",".","0",".","1",":","5","0","0","0">>]

\* GET path?q=1
Get(path) == Request((* GET *) <<"G","E","T">>, path, (* q=1 *) <<"q","=","1">>, (* q *) <<"q">> :> (* 1 *) <<"1">>, EmptyValues)

\* Requests whose query parameter q, or form field f, holds text shaped like
\* the three directives.
Injected == (* <%@include file=\"b.html\" %><% z = \"1\" %><%= z %> *) <<"<","%","@","i","n","c","l","u","d","e"," ","f","i","l","e","=","\"","b",".","h","t","m","l","\""," ","%",">","<","%"," ","z"," ","="," ","\"","1","\""," ","%",">","<","%","="," ","z"," ","%",">">>
GetInjected ==
    Request((* GET *) <<"G","E","T">>, (* /inj *) <<"/","i","n","j">>, (* q=%3C%25%40include+file%3D%22b.html%22+%25%3E%3C%25+z+%3D+%221%22+%25%3E%3C%25%3D+z+%25%3E *) <<"q","=","%","3","C","%","2","5","%","4","0","i","n","c","l","u","d","e","+","f","i","l","e","%","3","D","%","2","2","b",".","h","t","m","l","%","2","2","+","%","2","5","%","3","E","%","3","C","%","2","5","+","z","+","%","3","D","+","%","2","2","1","%","2","2","+","%","2","5","%","3","E","%","3","C","%","2","5","%","3","D","+","z","+","%","2","5","%","3","E">>,
            (* q *) <<"q">> :> Injected, EmptyValues)
PostInjected == Request((* POST *) <<"P","O","S","T">>, (* /inj *) <<"/","i","n","j">>, << >>, EmptyValues, (* f *) <<"f">> :> Injected)

\* The same POST with an ordinary form field.
PostField == Request((* POST *) <<"P","O","S","T">>, (* /inj *) <<"/","i","n","j">>, << >>, EmptyValues, (* f *) <<"f">> :> (* 2 *) <<"2">>)

\* The requests a server receives.
Requests ==
    { Get((* / *) <<"/">>), Get((* /late *) <<"/","l","a","t","e">>), Get((* /plain *) <<"/","p","l","a","i","n">>), Get((* /sum *) <<"/","s","u","m">>), Get((* /big *) <<"/","b","i","g">>),
      Get((* /echo *) <<"/","e","c","h","o">>), Get((* /req *) <<"/","r","e","q">>), Get((* /order *) <<"/","o","r","d","e","r">>), Get((* /inc *) <<"/","i","n","c">>), Get((* /a *) <<"/","a">>),
      Get((* /sub/c *) <<"/","s","u","b","/","c">>), Get((* /txt *) <<"/","t","x","t">>), Get((* /loop *) <<"/","l","o","o","p">>), Get((* /quote *) <<"/","q","u","o","t","e">>), Get((* /nope *) <<"/","n","o","p","e">>),
      Get((* /greet *) <<"/","g","r","e","e","t">>), Get((* /api *) <<"/","a","p","i">>), Get((* /peek *) <<"/","p","e","e","k">>), Get((* /bad *) <<"/","b","a","d">>), Get((* /ctl *) <<"/","c","t","l">>),
      Get((* /plus *) <<"/","p","l","u","s">>), Get((* /ping *) <<"/","p","i","n","g">>), Get((* /inj *) <<"/","i","n","j">>), GetInjected, PostInjected,
      Request((* POST *) <<"P","O","S","T">>, (* /req *) <<"/","r","e","q">>, << >>, EmptyValues, (* f *) <<"f">> :> (* 2 *) <<"2">>),
      Request((* PATCH *) <<"P","A","T","C","H">>, (* /greet *) <<"/","g","r","e","e","t">>, << >>, EmptyValues, EmptyValues),
      Request((* DELETE *) <<"D","E","L","E","T","E">>, (* /greet *) <<"/","g","r","e","e","t">>, << >>, EmptyValues, EmptyValues) }

Route(path, file, methods) == [Path |-> path, File |-> file, Methods |-> methods]

\* What loadRouteConfig finds at the --config path: a route table, or a file that
\* is missing or is not well-formed XML (ok = FALSE).
ConfigFiles ==
    { [ok |-> FALSE, Routes |-> << >>],
      [ok |-> TRUE, Routes |-> << Route((* /greet *) <<"/","g","r","e","e","t">>, (* index.html *) <<"i","n","d","e","x",".","h","t","m","l">>, << (* GET *) <<"G","E","T">> >>) >>],
      [ok |-> TRUE,
       Routes |-> << Route((* /greet *) <<"/","g","r","e","e","t">>, (* sum.html *) <<"s","u","m",".","h","t","m","l">>, << (* get *) <<"g","e","t">>, (* Patch *) <<"P","a","t","c","h">> >>),
                     Route((* /api *) <<"/","a","p","i">>, (* req.html *) <<"r","e","q",".","h","t","m","l">>, << (* ANY *) <<"A","N","Y">>, (* HEAD *) <<"H","E","A","D">> >>) >>] }

(***************************************************************************)
(* Routes: setupRoutes and the router's choice of a handler.               *)
(***************************************************************************)

LowerChars == << "a","b","c","d","e","f","g","h","i","j","k","l","m",
                 "n","o","p","q","r","s","t","u","v","w","x","y","z" >>
UpperChars == << "A","B","C","D","E","F","G","H","I","J","K","L","M",
                 "N","O","P","Q","R","S","T","U","V","W","X","Y","Z" >>

\* strings.ToUpper
ToUpper(s) ==
    [k \in 1..Len(s) |->
        IF \E j \in 1..26 : LowerChars[j] = s[k]
        THEN UpperChars[CHOOSE j \in 1..26 : LowerChars[j] = s[k]]
        ELSE s[k]]

\* The methods echo's e.Any registers a handler for.
AnyMethods ==
    << (* CONNECT *) <<"C","O","N","N","E","C","T">>, (* DELETE *) <<"D","E","L","E","T","E">>, (* GET *) <<"G","E","T">>, (* HEAD *) <<"H","E","A","D">>, (* OPTIONS *) <<"O","P","T","I","O","N","S">>, (* PATCH *) <<"P","A","T","C","H">>, (* POST *) <<"P","O","S","T">>,
       (* PROPFIND *) <<"P","R","O","P","F","I","N","D">>, (* PUT *) <<"P","U","T">>, (* TRACE *) <<"T","R","A","C","E">>, (* REPORT *) <<"R","E","P","O","R","T">> >>

\* A registration e.METHOD(path, createHandler(file)); the catch-all's handler is
\* fileBasedHandler (kind "file"), which names no file of its own.
Registration(method, path, kind, file) ==
    [method |-> method, path |-> path, kind |-> kind, file |-> file]

eAny(path, kind, file) ==
    [k \in 1..Len(AnyMethods) |-> Registration(AnyMethods[k], path, kind, file)]

\* setupRoutes: the switch on strings.ToUpper(method)
routeMethod(route, method) ==
    LET m == ToUpper(method)
    IN  IF m \in {(* GET *) <<"G","E","T">>, (* POST *) <<"P","O","S","T">>, (* PUT *) <<"P","U","T">>, (* DELETE *) <<"D","E","L","E","T","E">>, (* PATCH *) <<"P","A","T","C","H">>}
        THEN << Registration(m, route.Path, "template", route.File) >>
        ELSE IF m = (* ANY *) <<"A","N","Y">> THEN eAny(route.Path, "template", route.File)
        ELSE << >>

\* The generated program's switch: it has no case for PATCH.
routeMethodCompiled(route, method) ==
    LET m == ToUpper(method)
    IN  IF m \in {(* GET *) <<"G","E","T">>, (* POST *) <<"P","O","S","T">>, (* PUT *) <<"P","U","T">>, (* DELETE *) <<"D","E","L","E","T","E">>}
        THEN << Registration(m, route.Path, "template", route.File) >>
        ELSE IF m = (* ANY *) <<"A","N","Y">> THEN eAny(route.Path, "template", route.File)
        ELSE << >>

RouteMethodOf(engine, route, method) ==
    IF engine = "fs" THEN routeMethod(route, method)
    ELSE routeMethodCompiled(route, method)

\* The inner loop of setupRoutes over one route's methods, from the k-th on.
RECURSIVE MethodRegistrations(_, _, _)
MethodRegistrations(engine, route, k) ==
    IF k > Len(route.Methods) THEN << >>
    ELSE RouteMethodOf(engine, route, route.Methods[k])
             \o MethodRegistrations(engine, route, k + 1)

\* The outer loop of setupRoutes, from the k-th route on.
RECURSIVE RouteRegistrations(_, _, _)
RouteRegistrations(engine, routes, k) ==
    IF k > Len(routes) THEN << >>
    ELSE MethodRegistrations(engine, routes[k], 1)
             \o RouteRegistrations(engine, routes, k + 1)

\* setupRoutes: the registrations it makes, in order; the catch-all comes last.
setupRoutes(engine, routes) ==
    RouteRegistrations(engine, routes, 1) \o eAny((* /* *) <<"/","*">>, "file", << >>)

\* The router's choice among the registrations regs for request c: the handler
\* registered for the request's method on exactly its path (the one registered
\* last, which replaces an earlier one), else the catch-all.  0 when there is none.
RouteFor(regs, c) ==
    LET exact == {k \in 1..Len(regs) : regs[k].method = c.method /\ regs[k].path = c.path}
        star  == {k \in 1..Len(regs) : regs[k].method = c.method /\ regs[k].path = (* /* *) <<"/","*">>}
        Max(S) == CHOOSE k \in S : \A j \in S : j <= k
    IN  IF exact # {} THEN Max(exact)
        ELSE IF star # {} THEN Max(star)
        ELSE 0

\* fileBasedHandler: the file a request's path names.
fileBasedHandler(c) ==
    TrimPrefix(IF c.path = (* / *) <<"/">> THEN (* /index *) <<"/","i","n","d","e","x">> ELSE c.path, (* / *) <<"/">>) \o (* .html *) <<".","h","t","m","l">>

\* The file the chosen handler renders.
HandlerFile(reg, c) ==
    IF reg.kind = "template" THEN reg.file ELSE fileBasedHandler(c)

\* c.ParamValues(): the catch-all's "*" parameter holds the path below "/".
ParamValues(reg, c) ==
    IF reg.kind = "template" THEN << >> ELSE << TrimPrefix(c.path, (* / *) <<"/">>) >>


(***************************************************************************)
(* The compile pipeline's helpers.                                         *)
(***************************************************************************)

\* compileTemplates' filepath.Walk: every file under rootPath whose path ends in
\* ".html", keyed by its path relative to rootPath.
ScanTemplates ==
    LET html == {p \in DOMAIN Disk : HasSuffix(p, (* .html *) <<".","h","t","m","l">>)}
    IN  [r \in {Rel(rootPath, p) : p \in html} |->
            Disk[CHOOSE p \in html : Rel(rootPath, p) = r]]

\* generateMainGo: the data compiledMainTemplate writes into main.go, every
\* string with printf "%q".
GeneratedProgram(templates, routes) ==
    [templates |-> [r \in {Quote(n) : n \in DOMAIN templates} |->
                       Quote(templates[CHOOSE n \in DOMAIN templates : Quote(n) = r])],
     routes    |-> [k \in 1..Len(routes) |->
                       [Path    |-> Quote(routes[k].Path),
                        File    |-> Quote(routes[k].File),
                        Methods |-> [j \in 1..Len(routes[k].Methods) |->
                                        Quote(routes[k].Methods[j])]]]]

\* go build: embeddedTemplates and embeddedRoutes of the binary built from main.go.
BuiltProgram(mainGo) ==
    [built |-> TRUE,
     embeddedTemplates |->
         [n \in {Unquote(q) : q \in DOMAIN mainGo.templates} |->
             Unquote(mainGo.templates[CHOOSE q \in DOMAIN mainGo.templates : Unquote(q) = n])],
     embeddedRoutes |->
         [k \in 1..Len(mainGo.routes) |->
             Route(Unquote(mainGo.routes[k].Path), Unquote(mainGo.routes[k].File),
                   [j \in 1..Len(mainGo.routes[k].Methods) |->
                       Unquote(mainGo.routes[k].Methods[j])])]]

NoProgram == [built |-> FALSE, embeddedTemplates |-> << >>, embeddedRoutes |-> << >>]

NoWorkspace == [exists |-> FALSE, mainGo |-> FALSE, goMod |-> FALSE]

\* The deferred calls of generateCompiledBinary, run last registered first when it
\* returns, on the pipeline's [workspace, cwd].
RECURSIVE RunDeferred(_, _)
RunDeferred(defers, st) ==
    IF defers = << >> THEN st
    ELSE LET d == defers[Len(defers)]
         IN  RunDeferred(Front(defers),
                 IF d = "os.RemoveAll(tempDir)"
                 THEN [st EXCEPT !.workspace = NoWorkspace]
                 ELSE [st EXCEPT !.cwd = "original"])

(***************************************************************************)
(* The state.                                                              *)
(***************************************************************************)

\* The bound on the depth of nested includes the model follows.
MaxDepth == 5

\* The development server and the server the compile pipeline builds.
Servers == {"dev", "compiled"}

\* The goroutines that serve a request: one of each server, and a second one of
\* the development server, which serves a request of its own at the same time.
Peer == "dev/2"
Goroutines == Servers \cup {Peer}

\* The server goroutine s belongs to.
ServerOf(s) == IF s = Peer THEN "dev" ELSE s

Engine(s) == IF ServerOf(s) = "dev" THEN "fs" ELSE "embedded"

VARIABLES
    req,         \* the request the servers receive
    req2,        \* the request the second goroutine of the development server serves
    configFile,  \* what loadRouteConfig finds at the --config path
    srv,         \* per server: whether it is up, and its route registrations
    rs,          \* per goroutine: the render of its request, see IdleRender
    cp,          \* the compile pipeline, see Init
    artifact     \* the binary at the --output path

vars == << req, req2, configFile, srv, rs, cp, artifact >>

\* A render (one call of processTemplate):
\*   pc        idle, includes, code, output, done
\*   filename  the file the handler renders;  params: c.ParamValues()
\*   stack     the calls of processIncludes in progress, innermost last, each
\*             [out, rest]: the text produced so far and the text still to scan
\*   reads     the paths the include pass tried to read, in order
\*   source, expanded, stripped: the content as read, after the include pass and
\*             after the code-block pass
\*   seed, data: the scope as seeded and as it stands
\*   assigns, tags: the assignments stored and the output tags replaced, in order
\*   status, body: the response;  fault: a run-time panic ended the render
IdleRender ==
    [pc |-> "idle", filename |-> << >>, params |-> << >>, stack |-> << >>,
     reads |-> << >>, source |-> << >>, expanded |-> << >>, stripped |-> << >>,
     seed |-> << >>, data |-> << >>, assigns |-> << >>, tags |-> << >>,
     status |-> 0, body |-> << >>, fault |-> FALSE]

Init ==
    /\ req \in Requests
    /\ req2 = req
    /\ configFile \in ConfigFiles
    /\ srv = [s \in Servers |-> [up |-> FALSE, regs |-> << >>]]
    /\ rs = [s \in Goroutines |-> IdleRender]
    /\ cp = [pc |-> "scan", templates |-> << >>, routes |-> << >>,
             workspace |-> NoWorkspace, cwd |-> "original", defers |-> << >>,
             err |-> "", exit |-> -1, ran |-> << >>]
    /\ artifact = NoProgram

\* The request goroutine s serves.
RequestOf(s) == IF s = Peer THEN req2 ELSE req

\* The echo.Context of render s.
Context(s) ==
    LET r == RequestOf(s)
    IN  [method |-> r.method, path |-> r.path, rawQuery |-> r.rawQuery,
         query |-> r.query, form |-> r.form, host |-> r.host,
         remoteaddr |-> r.remoteaddr, params |-> rs[s].params]

(***************************************************************************)
(* Serving.                                                                *)
(***************************************************************************)

\* runServer of the development server: loadRouteConfig (an error leaves the
\* route table empty), then setupRoutes.
RunServer ==
    /\ ~ srv["dev"].up
    /\ srv' = [srv EXCEPT !["dev"] =
                  [up |-> TRUE,
                   regs |-> setupRoutes("fs", IF configFile.ok THEN configFile.Routes
                                              ELSE << >>)]]
    /\ UNCHANGED << req, req2, configFile, rs, cp, artifact >>

\* runServer of the generated program, once it is built: setupRoutes over
\* embeddedRoutes.
RunCompiledServer ==
    /\ artifact.built
    /\ ~ srv["compiled"].up
    /\ srv' = [srv EXCEPT !["compiled"] =
                  [up |-> TRUE, regs |-> setupRoutes("embedded", artifact.embeddedRoutes)]]
    /\ UNCHANGED << req, req2, configFile, rs, cp, artifact >>

\* The registry's answer for a top-level file: [found, content].
Fetch(engine, filename) ==
    IF engine = "fs"
    THEN IF Join(rootPath, filename) \in DOMAIN Disk
         THEN [found |-> TRUE, content |-> Disk[Join(rootPath, filename)]]
         ELSE [found |-> FALSE, content |-> (* File not found:  *) <<"F","i","l","e"," ","n","o","t"," ","f","o","u","n","d",":"," ">> \o filename]
    ELSE IF filename \in DOMAIN artifact.embeddedTemplates
         THEN [found |-> TRUE, content |-> artifact.embeddedTemplates[filename]]
         ELSE [found |-> FALSE, content |-> (* Template not found:  *) <<"T","e","m","p","l","a","t","e"," ","n","o","t"," ","f","o","u","n","d",":"," ">> \o filename]

\* The router calls the handler of the request, and processTemplate(c, filename)
\* runs up to the call of the processor: 404 for a file that does not exist, else
\* the content is read and a processor with a freshly seeded scope is created.
Handle(s) ==
    LET k    == RouteFor(srv[ServerOf(s)].regs, RequestOf(s))
        reg  == srv[ServerOf(s)].regs[k]
        file == HandlerFile(reg, RequestOf(s))
        got  == Fetch(Engine(s), file)
        c    == [Context(s) EXCEPT !.params = ParamValues(reg, RequestOf(s))]
        seed == IF Engine(s) = "fs" THEN SeedData(c) ELSE SeedDataCompiled(c)
    IN  /\ srv[ServerOf(s)].up
        /\ rs[s].pc = "idle"
        /\ k # 0
        /\ rs' = [rs EXCEPT ![s] =
                     IF got.found
                     THEN [@ EXCEPT !.pc = "includes", !.filename = file,
                                    !.params = ParamValues(reg, RequestOf(s)),
                                    !.source = got.content,
                                    !.stack = << [out |-> << >>, rest |-> got.content] >>,
                                    !.seed = seed, !.data = seed]
                     ELSE [@ EXCEPT !.pc = "done", !.filename = file,
                                    !.params = ParamValues(reg, RequestOf(s)),
                                    !.status = 404, !.body = got.content]]
        /\ UNCHANGED << req, req2, configFile, srv, cp, artifact >>

\* ReadInclude with an unreadable file's tag replaced by nothing.
ReadIncludeSilent(engine, includeFile) ==
    IF engine = "fs"
    THEN LET includePath == Join(rootPath, includeFile)
         IN  IF includePath \in DOMAIN Disk
             THEN [ok |-> TRUE, path |-> includePath, text |-> Disk[includePath]]
             ELSE [ok |-> FALSE, path |-> includePath, text |-> << >>]
    ELSE IF includeFile \in DOMAIN artifact.embeddedTemplates
         THEN [ok |-> TRUE, path |-> includeFile,
               text |-> artifact.embeddedTemplates[includeFile]]
         ELSE [ok |-> FALSE, path |-> includeFile, text |-> << >>]

\* What processIncludes' callback gets for an include of includeFile: [ok, text],
\* text being the file's content, or the marker that replaces the tag.
ReadInclude(engine, includeFile) ==
    IF engine = "fs"
    THEN LET includePath == Join(rootPath, includeFile)
         IN  IF includePath \in DOMAIN Disk
             THEN [ok |-> TRUE, path |-> includePath, text |-> Disk[includePath]]
             ELSE [ok |-> FALSE, path |-> includePath,
                   text |-> (* <!-- Include error: open  *) <<"<","!","-","-"," ","I","n","c","l","u","d","e"," ","e","r","r","o","r",":"," ","o","p","e","n"," ">> \o includePath
                                \o (* : no such file or directory --> *) <<":"," ","n","o"," ","s","u","c","h"," ","f","i","l","e"," ","o","r"," ","d","i","r","e","c","t","o","r","y"," ","-","-",">">>]
    ELSE IF includeFile \in DOMAIN artifact.embeddedTemplates
         THEN [ok |-> TRUE, path |-> includeFile,
               text |-> artifact.embeddedTemplates[includeFile]]
         ELSE [ok |-> FALSE, path |-> includeFile,
               text |-> (* <!-- Include error: template  *) <<"<","!","-","-"," ","I","n","c","l","u","d","e"," ","e","r","r","o","r",":"," ","t","e","m","p","l","a","t","e"," ">> \o includeFile
                            \o (*  not found --> *) <<" ","n","o","t"," ","f","o","u","n","d"," ","-","-",">">>]

\* IncludeStep without the recursive call: an included file's content replaces
\* the tag as it is read.
IncludeStepShallow(s) ==
    LET r     == rs[s]
        top   == r.stack[1]
        k     == NextInclude(top.rest, 1)
        m     == includeRegex(top.rest, k)
        got   == ReadInclude(Engine(s), SubSeq(top.rest, m.from, m.to))
        text  == top.out \o SubSeq(top.rest, 1, k - 1)
        after == SubSeq(top.rest, m.end + 1, Len(top.rest))
    IN  /\ r.pc = "includes"
        /\ \/ /\ k # 0
              /\ rs' = [rs EXCEPT ![s].stack[1] = [out |-> text \o got.text, rest |-> after],
                                  ![s].reads = Append(@, got.path)]
           \/ /\ k = 0
              /\ rs' = [rs EXCEPT ![s].stack = << >>, ![s].expanded = top.out \o top.rest,
                                  ![s].pc = "code"]
        /\ UNCHANGED << req, req2, configFile, srv, cp, artifact >>

\* IncludeStep with a guard on the depth of nesting: an include tag met three
\* calls deep is replaced by what ReadInclude gives, with no further call.
IncludeStepGuarded(s) ==
    LET r     == rs[s]
        n     == Len(r.stack)
        top   == r.stack[n]
        k     == NextInclude(top.rest, 1)
        m     == includeRegex(top.rest, k)
        got   == ReadInclude(Engine(s), SubSeq(top.rest, m.from, m.to))
        text  == top.out \o SubSeq(top.rest, 1, k - 1)
        after == SubSeq(top.rest, m.end + 1, Len(top.rest))
        done  == top.out \o top.rest
    IN  /\ r.pc = "includes"
        /\ \/ /\ k # 0
              /\ (~ got.ok \/ n >= 3)
              /\ rs' = [rs EXCEPT ![s].stack[n] = [out |-> text \o got.text, rest |-> after],
                                  ![s].reads = Append(@, got.path)]
           \/ /\ k # 0
              /\ got.ok
              /\ n < 3
              /\ rs' = [rs EXCEPT ![s].stack =
                                      Append([@ EXCEPT ![n] = [out |-> text, rest |-> after]],
                                             [out |-> << >>, rest |-> got.text]),
                                  ![s].reads = Append(@, got.path)]
           \/ /\ k = 0
              /\ n > 1
              /\ rs' = [rs EXCEPT ![s].stack =
                                      [Front(@) EXCEPT ![n - 1].out = @ \o done]]
           \/ /\ k = 0
              /\ n = 1
              /\ rs' = [rs EXCEPT ![s].stack = << >>, ![s].expanded = done,
                                  ![s].pc = "code"]
        /\ UNCHANGED << req, req2, configFile, srv, cp, artifact >>

\* One step of the include pass, in the innermost call of processIncludes: it
\* takes the next include tag of its text and either replaces it by the error
\* marker or calls processIncludes on the file's content; with no tag left the
\* call returns its text to its caller, the outermost one to processTemplate.
IncludeStep(s) ==
    LET r     == rs[s]
        n     == Len(r.stack)
        top   == r.stack[n]
        k     == NextInclude(top.rest, 1)
        m     == includeRegex(top.rest, k)
        got   == ReadInclude(Engine(s), SubSeq(top.rest, m.from, m.to))
        text  == top.out \o SubSeq(top.rest, 1, k - 1)
        after == SubSeq(top.rest, m.end + 1, Len(top.rest))
        done  == top.out \o top.rest
    IN  /\ r.pc = "includes"
        /\ \/ /\ k # 0
              /\ ~ got.ok
              /\ rs' = [rs EXCEPT ![s].stack[n] = [out |-> text \o got.text, rest |-> after],
                                  ![s].reads = Append(@, got.path)]
           \/ /\ k # 0
              /\ got.ok
              /\ n < MaxDepth
              /\ rs' = [rs EXCEPT ![s].stack =
                                      Append([@ EXCEPT ![n] = [out |-> text, rest |-> after]],
                                             [out |-> << >>, rest |-> got.text]),
                                  ![s].reads = Append(@, got.path)]
           \/ /\ k = 0
              /\ n > 1
              /\ rs' = [rs EXCEPT ![s].stack =
                                      [Front(@) EXCEPT ![n - 1].out = @ \o done]]
           \/ /\ k = 0
              /\ n = 1
              /\ rs' = [rs EXCEPT ![s].stack = << >>, ![s].expanded = done,
                                  ![s].pc = "code"]
        /\ UNCHANGED << req, req2, configFile, srv, cp, artifact >>

\* The names a log of assignments holds.
AssignedIn(assigns) == { assigns[k].name : k \in 1..Len(assigns) }

\* CodePass with one scope for all the renders of a server, as if the processor's
\* data were a package-level map: the names a render assigns are written to the
\* scope of every render of its server.
CodePassShared(s) ==
    LET r == processCodeExpressions(rs[s].expanded, rs[s].data)
        Shared(d) ==
            [n \in DOMAIN d \cup AssignedIn(r.assigns) |->
                IF n \in AssignedIn(r.assigns) THEN r.data[n] ELSE d[n]]
    IN  /\ rs[s].pc = "code"
        /\ rs' = [g \in DOMAIN rs |->
                     IF g = s
                     THEN IF r.fault
                          THEN [rs[g] EXCEPT !.pc = "done", !.fault = TRUE, !.status = 500,
                                             !.data = r.data, !.assigns = r.assigns,
                                             !.body = (* {\"message\":\"Internal Server Error\"}\n *) <<"{","\"","m","e","s","s","a","g","e","\"",":","\"","I","n","t","e","r","n","a","l"," ","S","e","r","v","e","r"," ","E","r","r","o","r","\"","}","\n">>]
                          ELSE [rs[g] EXCEPT !.pc = "output", !.stripped = r.content,
                                             !.data = r.data, !.assigns = r.assigns]
                     ELSE IF ServerOf(g) = ServerOf(s) /\ rs[g].pc \in {"includes", "code", "output"}
                          THEN [rs[g] EXCEPT !.data = Shared(@)]
                          ELSE rs[g]]
        /\ UNCHANGED << req, req2, configFile, srv, cp, artifact >>

\* The code-block pass.  A panic in it is caught by the server's Recover
\* middleware, which answers 500.
CodePass(s) ==
    LET r == processCodeExpressions(rs[s].expanded, rs[s].data)
    IN  /\ rs[s].pc = "code"
        /\ rs' = [rs EXCEPT ![s] =
                     IF r.fault
                     THEN [@ EXCEPT !.pc = "done", !.fault = TRUE, !.status = 500,
                                    !.data = r.data, !.assigns = r.assigns,
                                    !.body = (* {\"message\":\"Internal Server Error\"}\n *) <<"{","\"","m","e","s","s","a","g","e","\"",":","\"","I","n","t","e","r","n","a","l"," ","S","e","r","v","e","r"," ","E","r","r","o","r","\"","}","\n">>]
                     ELSE [@ EXCEPT !.pc = "output", !.stripped = r.content,
                                    !.data = r.data, !.assigns = r.assigns]]
        /\ UNCHANGED << req, req2, configFile, srv, cp, artifact >>

\* The output pass; processTemplate then answers 200 with the content.
OutputPass(s) ==
    LET r == processOutputTags(Engine(s), rs[s].stripped, rs[s].data, Context(s))
    IN  /\ rs[s].pc = "output"
        /\ rs' = [rs EXCEPT ![s].pc = "done", ![s].tags = r.tags,
                            ![s].status = 200, ![s].body = r.content]
        /\ UNCHANGED << req, req2, configFile, srv, cp, artifact >>

(***************************************************************************)
(* The compile pipeline: compileTemplates and generateCompiledBinary.  A  *)
(* step that may fail takes its outcome ok from BOOLEAN.                   *)
(***************************************************************************)

\* The pipeline's record c with one more step in its log of the steps run, each
\* with whether it succeeded.
Ran(step, ok, c) == [c EXCEPT !.ran = Append(@, [step |-> step, ok |-> ok])]

\* Return without the deferred calls, as when the process exits in place.
ReturnSkipDeferred(c, err) ==
    [c EXCEPT !.pc = "returned", !.err = err, !.defers = << >>]

\* generateCompiledBinary returns err: its deferred calls run.
Return(c, err) ==
    LET st == RunDeferred(c.defers, [workspace |-> c.workspace, cwd |-> c.cwd])
    IN  [c EXCEPT !.pc = "returned", !.err = err, !.defers = << >>,
                  !.workspace = st.workspace, !.cwd = st.cwd]

\* The directory walk; an error is fatal (log.Fatal).
Scan(ok) ==
    /\ cp.pc = "scan"
    /\ cp' = Ran("scan", ok,
             IF ok THEN [cp EXCEPT !.pc = "loadRouteConfig", !.templates = ScanTemplates]
                ELSE [cp EXCEPT !.pc = "exited", !.exit = 1, !.err = "Error scanning templates"])
    /\ UNCHANGED << req, req2, configFile, srv, rs, artifact >>

\* loadRouteConfig; an error leaves the route table empty.
LoadRouteConfig ==
    /\ cp.pc = "loadRouteConfig"
    /\ cp' = Ran("loadRouteConfig", configFile.ok,
             [cp EXCEPT !.pc = "TempDir",
                           !.routes = IF configFile.ok THEN configFile.Routes ELSE << >>])
    /\ UNCHANGED << req, req2, configFile, srv, rs, artifact >>

\* ioutil.TempDir, and the deferred os.RemoveAll(tempDir)
TempDir(ok) ==
    /\ cp.pc = "TempDir"
    /\ cp' = Ran("TempDir", ok,
             IF ok
                THEN [cp EXCEPT !.pc = "generateMainGo", !.workspace.exists = TRUE,
                                !.defers = Append(@, "os.RemoveAll(tempDir)")]
                ELSE Return(cp, "failed to create temp directory"))
    /\ UNCHANGED << req, req2, configFile, srv, rs, artifact >>

GenerateMainGo(ok) ==
    /\ cp.pc = "generateMainGo"
    /\ cp' = Ran("generateMainGo", ok,
             IF ok
                THEN [cp EXCEPT !.pc = "generateGoMod",
                                !.workspace.mainGo = GeneratedProgram(cp.templates, cp.routes)]
                ELSE Return(cp, "failed to generate main.go"))
    /\ UNCHANGED << req, req2, configFile, srv, rs, artifact >>

GenerateGoMod(ok) ==
    /\ cp.pc = "generateGoMod"
    /\ cp' = Ran("generateGoMod", ok,
             IF ok THEN [cp EXCEPT !.pc = "Abs", !.workspace.goMod = TRUE]
                ELSE Return(cp, "failed to generate go.mod"))
    /\ UNCHANGED << req, req2, configFile, srv, rs, artifact >>

\* filepath.Abs(outputPath)
Abs(ok) ==
    /\ cp.pc = "Abs"
    /\ cp' = Ran("Abs", ok,
             IF ok THEN [cp EXCEPT !.pc = "Getwd"]
                ELSE Return(cp, "failed to get absolute output path"))
    /\ UNCHANGED << req, req2, configFile, srv, rs, artifact >>

Getwd(ok) ==
    /\ cp.pc = "Getwd"
    /\ cp' = Ran("Getwd", ok,
             IF ok THEN [cp EXCEPT !.pc = "Chdir"]
                ELSE Return(cp, "failed to get current directory"))
    /\ UNCHANGED << req, req2, configFile, srv, rs, artifact >>

\* os.Chdir(tempDir), and the deferred os.Chdir(originalDir)
Chdir(ok) ==
    /\ cp.pc = "Chdir"
    /\ cp' = Ran("Chdir", ok,
             IF ok
                THEN [cp EXCEPT !.pc = "go mod tidy", !.cwd = "temp",
                                !.defers = Append(@, "os.Chdir(originalDir)")]
                ELSE Return(cp, "failed to change to temp directory"))
    /\ UNCHANGED << req, req2, configFile, srv, rs, artifact >>

\* ModTidy with the command's error ignored: the build is started all the same.
ModTidyIgnored(ok) ==
    /\ cp.pc = "go mod tidy"
    /\ cp' = Ran("go mod tidy", ok, [cp EXCEPT !.pc = "go build"])
    /\ UNCHANGED << req, req2, configFile, srv, rs, artifact >>

\* executeCommand("go mod tidy")
ModTidy(ok) ==
    /\ cp.pc = "go mod tidy"
    /\ cp' = Ran("go mod tidy", ok,
             IF ok THEN [cp EXCEPT !.pc = "go build"]
                ELSE Return(cp, "failed to download dependencies"))
    /\ UNCHANGED << req, req2, configFile, srv, rs, artifact >>

\* executeCommand("go build -o ..."): on success the binary is written and
\* generateCompiledBinary returns nil.
Build(ok) ==
    /\ cp.pc = "go build"
    /\ cp' = Ran("go build", ok,
             IF ok THEN Return(cp, "") ELSE Return(cp, "failed to build binary"))
    /\ artifact' = IF ok THEN BuiltProgram(cp.workspace.mainGo) ELSE artifact
    /\ UNCHANGED << req, req2, configFile, srv, rs >>

\* compileTemplates after generateCompiledBinary: log.Fatal on an error, else the
\* success message.
Finish ==
    /\ cp.pc = "returned"
    /\ cp' = [cp EXCEPT !.pc = "exited", !.exit = IF cp.err = "" THEN 0 ELSE 1]
    /\ UNCHANGED << req, req2, configFile, srv, rs, artifact >>

Next ==
    \/ RunServer
    \/ RunCompiledServer
    \/ \E s \in Servers : Handle(s)
    \/ \E s \in Servers : IncludeStep(s)
    \/ \E s \in Servers : CodePass(s)
    \/ \E s \in Servers : OutputPass(s)
    \/ \E ok \in BOOLEAN : Scan(ok)
    \/ LoadRouteConfig
    \/ \E ok \in BOOLEAN : TempDir(ok)
    \/ \E ok \in BOOLEAN : GenerateMainGo(ok)
    \/ \E ok \in BOOLEAN : GenerateGoMod(ok)
    \/ \E ok \in BOOLEAN : Abs(ok)
    \/ \E ok \in BOOLEAN : Getwd(ok)
    \/ \E ok \in BOOLEAN : Chdir(ok)
    \/ \E ok \in BOOLEAN : ModTidy(ok)
    \/ \E ok \in BOOLEAN : Build(ok)
    \/ Finish

Spec == Init /\ [][Next]_vars

(***************************************************************************)
(* Properties of a render.  A finished render keeps what it read, the      *)
(* assignments its code blocks made and what each output tag became.       *)
(***************************************************************************)

\* The render of server s has answered with a rendered document.
Rendered(s) == rs[s].pc = "done" /\ rs[s].status = 200

\* The include pass of server s is over.
Expanded(s) == rs[s].pc = "code" \/ rs[s].pc = "output" \/ Rendered(s) \/ rs[s].fault

\* The names the code blocks of the document of s assigned.
AssignedNames(s) == { rs[s].assigns[k].name : k \in 1..Len(rs[s].assigns) }

\* The value of the last assignment to name, in document order.
LastAssignment(s, name) ==
    LET ks == { k \in 1..Len(rs[s].assigns) : rs[s].assigns[k].name = name }
    IN  rs[s].assigns[CHOOSE k \in ks : \A j \in ks : j <= k].value

\* sub occurs in s.
Occurs(s, sub) == \E i \in 1..Len(s) : HasAt(s, i, sub)

\* C1: an output tag whose trimmed content is a name some code block of the
\* expanded document assigns renders the value of the last such assignment in
\* document order, whether the tag stands before or after the assignments.
C1_LastAssignmentWins ==
    \A s \in Servers :
        Rendered(s) =>
            \A k \in 1..Len(rs[s].tags) :
                rs[s].tags[k].expr \in AssignedNames(s) =>
                    rs[s].tags[k].text = LastAssignment(s, rs[s].tags[k].expr)

\* A document whose first tag precedes two assignments to its name has been
\* rendered, the tag showing the second value.
C1_Witness ==
    \E s \in Servers :
        /\ Rendered(s)
        /\ HasPrefix(rs[s].expanded, (* <%= x %> *) <<"<","%","="," ","x"," ","%",">">>)
        /\ Len(rs[s].assigns) = 2
        /\ rs[s].assigns[1] = [name |-> (* x *) <<"x">>, value |-> (* 1 *) <<"1">>]
        /\ rs[s].assigns[2] = [name |-> (* x *) <<"x">>, value |-> (* 2 *) <<"2">>]
        /\ rs[s].tags[1] = [expr |-> (* x *) <<"x">>, text |-> (* 2 *) <<"2">>]

\* C2: the generated program renders a document to the same answer as the
\* development server does from the files the program was generated from.
C2_EnginesAgree ==
    ( /\ rs["dev"].pc = "done"
      /\ rs["compiled"].pc = "done"
      /\ rs["dev"].source = rs["compiled"].source
      /\ rs["dev"].source # << >> )
        => /\ rs["compiled"].status = rs["dev"].status
           /\ rs["compiled"].body = rs["dev"].body

\* The rules of an output tag, in their order: rule n applies to expr.
RuleApplies(n, expr, data) ==
    CASE n = 1 -> expr \in DOMAIN data
      [] n = 2 -> HasPrefix(expr, (* request. *) <<"r","e","q","u","e","s","t",".">>)
      [] n = 3 -> HasPrefix(expr, (* query. *) <<"q","u","e","r","y",".">>)
      [] n = 4 -> HasPrefix(expr, (* form. *) <<"f","o","r","m",".">>)
      [] n = 5 -> Contains(expr, "+")
      [] OTHER -> TRUE

\* The first rule that applies.
FirstRule(expr, data) == Min({ n \in 1..6 : RuleApplies(n, expr, data) })

\* What rule n makes of expr.
RuleText(n, expr, data, c) ==
    CASE n = 1 -> data[expr].str
      [] n = 2 -> ( CASE expr = (* request.method *) <<"r","e","q","u","e","s","t",".","m","e","t","h","o","d">> -> c.method
                      [] expr = (* request.url *) <<"r","e","q","u","e","s","t",".","u","r","l">> -> URLString(c)
                      [] expr = (* request.host *) <<"r","e","q","u","e","s","t",".","h","o","s","t">> -> c.host
                      [] expr = (* request.remoteaddr *) <<"r","e","q","u","e","s","t",".","r","e","m","o","t","e","a","d","d","r">> -> c.remoteaddr
                      [] OTHER -> expr )
      [] n = 3 -> QueryParam(c, SubSeq(expr, 7, Len(expr)))
      [] n = 4 -> FormValue(c, SubSeq(expr, 6, Len(expr)))
      [] n = 5 -> evaluateSimpleExpression(expr)
      [] OTHER -> expr

\* C3: the development server's output tag is rendered by the first rule that
\* applies, in the order: scope lookup, "request.", "query.", "form.", "+", echo.
C3_RuleOrder ==
    Rendered("dev") =>
        \A k \in 1..Len(rs["dev"].tags) :
            LET t == rs["dev"].tags[k]
            IN  t.text = RuleText(FirstRule(t.expr, rs["dev"].data), t.expr,
                                  rs["dev"].data, Context("dev"))

\* A document has been rendered in which a bound name that starts with
\* "request." shows its bound value, a bound name with a "+" shows its bound
\* value, and an unbound "form." expression with a "+" is a form lookup.
C3_Witness ==
    /\ Rendered("dev")
    /\ \E k \in 1..Len(rs["dev"].tags) :
           rs["dev"].tags[k] = [expr |-> (* request.method *) <<"r","e","q","u","e","s","t",".","m","e","t","h","o","d">>, text |-> (* M *) <<"M">>]
    /\ \E k \in 1..Len(rs["dev"].tags) :
           rs["dev"].tags[k] = [expr |-> (* a+b *) <<"a","+","b">>, text |-> (* S *) <<"S">>]
    /\ \E k \in 1..Len(rs["dev"].tags) :
           /\ rs["dev"].tags[k] = [expr |-> (* form.1+2 *) <<"f","o","r","m",".","1","+","2">>, text |-> << >>]
           /\ rs["dev"].tags[k].expr \notin DOMAIN rs["dev"].data

\* C4: an output tag that reaches the "+" rule with exactly one "+" renders,
\* L and R being the trimmed texts on its two sides, the decimal text of L+R
\* when both are integers and L followed by R otherwise.
C4_PlusRule ==
    Rendered("dev") =>
        \A k \in 1..Len(rs["dev"].tags) :
            LET t     == rs["dev"].tags[k]
                parts == Split(t.expr, "+")
                L     == TrimSpace(parts[1])
                R     == TrimSpace(parts[2])
            IN  (FirstRule(t.expr, rs["dev"].data) = 5 /\ Len(parts) = 2) =>
                    t.text = IF AtoiOk(L) /\ AtoiOk(R)
                             THEN Itoa(NumAdd(Parse(L), Parse(R)))
                             ELSE L \o R

\* The expression of tag t is neither a prefixed one nor one with a "+".
Bare(t) ==
    /\ ~ HasPrefix(t.expr, (* request. *) <<"r","e","q","u","e","s","t",".">>)
    /\ ~ HasPrefix(t.expr, (* query. *) <<"q","u","e","r","y",".">>)
    /\ ~ HasPrefix(t.expr, (* form. *) <<"f","o","r","m",".">>)
    /\ ~ Contains(t.expr, "+")

\* The names processTemplate puts into the scope before the passes.
SeededNames == { (* request *) <<"r","e","q","u","e","s","t">>, (* params *) <<"p","a","r","a","m","s">>, (* query *) <<"q","u","e","r","y">>, (* form *) <<"f","o","r","m">> }

\* C5 as stated: an output tag whose expression no code block assigned, with
\* none of the three prefixes and no "+", renders the expression itself.
C5_EchoUnassigned ==
    \A s \in Servers :
        Rendered(s) =>
            \A k \in 1..Len(rs[s].tags) :
                LET t == rs[s].tags[k]
                IN  (t.expr \notin AssignedNames(s) /\ Bare(t)) => t.text = t.expr

\* C5, amended: such a tag renders the expression itself unless the expression
\* is one of the names the scope is seeded with: request, params, query, form.
C5_EchoUnassignedUnseeded ==
    \A s \in Servers :
        Rendered(s) =>
            \A k \in 1..Len(rs[s].tags) :
                LET t == rs[s].tags[k]
                IN  (t.expr \notin AssignedNames(s) /\ Bare(t)
                        /\ t.expr \notin SeededNames) => t.text = t.expr

\* An unassigned, unseeded bare name has been rendered as itself.
C5_Witness ==
    \E s \in Servers :
        /\ Rendered(s)
        /\ \E k \in 1..Len(rs[s].tags) :
               /\ rs[s].tags[k] = [expr |-> (* totallyUnknown *) <<"t","o","t","a","l","l","y","U","n","k","n","o","w","n">>, text |-> (* totallyUnknown *) <<"t","o","t","a","l","l","y","U","n","k","n","o","w","n">>]
               /\ rs[s].tags[k].expr \notin AssignedNames(s)

(***************************************************************************)
(* Properties of the include pass.                                         *)
(***************************************************************************)

\* The file an include tag names: the name is taken below the root directory,
\* whatever file the tag stands in.
RootFile(name) == (* root_http/ *) <<"r","o","o","t","_","h","t","t","p","/">> \o name

\* The marker an include tag of an unreadable file is replaced by.
IncludeErrorMarker(path) ==
    (* <!-- Include error: open  *) <<"<","!","-","-"," ","I","n","c","l","u","d","e"," ","e","r","r","o","r",":"," ","o","p","e","n"," ">> \o path \o (* : no such file or directory --> *) <<":"," ","n","o"," ","s","u","c","h"," ","f","i","l","e"," ","o","r"," ","d","i","r","e","c","t","o","r","y"," ","-","-",">">>

\* The flattened text: every include tag of text replaced by the flattened text
\* of the file it names, or by the marker.
RECURSIVE Flat(_)
Flat(text) ==
    LET k    == NextInclude(text, 1)
        m    == includeRegex(text, k)
        path == RootFile(SubSeq(text, m.from, m.to))
    IN  IF k = 0 THEN text
        ELSE SubSeq(text, 1, k - 1)
                 \o (IF path \in DOMAIN Disk THEN Flat(Disk[path])
                     ELSE IncludeErrorMarker(path))
                 \o Flat(SubSeq(text, m.end + 1, Len(text)))

\* The files the include tags of text name, those of an included file following
\* its own, in the order of the text.
RECURSIVE IncludeTargets(_)
IncludeTargets(text) ==
    LET k    == NextInclude(text, 1)
        m    == includeRegex(text, k)
        path == RootFile(SubSeq(text, m.from, m.to))
    IN  IF k = 0 THEN << >>
        ELSE << path >>
                 \o (IF path \in DOMAIN Disk THEN IncludeTargets(Disk[path]) ELSE << >>)
                 \o IncludeTargets(SubSeq(text, m.end + 1, Len(text)))

\* The unreadable files the include pass of the development server met.
Unreadable ==
    { rs["dev"].reads[k] : k \in 1..Len(rs["dev"].reads) } \ DOMAIN Disk

\* C6: when an include tag names a file that cannot be read, the tag is replaced
\* by the marker <!-- Include error: ... --> with the failure's description,
\* every include tag of the document and of the files it includes is still
\* expanded, and the code and output passes run over the whole result to an
\* answer that is no error (a run-time fault of the code pass apart).
C6_MissingInclude ==
    (Expanded("dev") /\ Unreadable # {}) =>
        /\ \A p \in Unreadable : Occurs(rs["dev"].expanded, IncludeErrorMarker(p))
        /\ rs["dev"].reads = IncludeTargets(rs["dev"].source)
        /\ rs["dev"].pc = "done" =>
               \/ rs["dev"].fault
               \/ /\ rs["dev"].status = 200
                  /\ rs["dev"].stripped
                         = processCodeExpressions(rs["dev"].expanded, rs["dev"].seed).content
                  /\ rs["dev"].body
                         = processOutputTags("fs", rs["dev"].stripped, rs["dev"].data,
                                             Context("dev")).content
                  /\ \A p \in Unreadable :
                         Occurs(rs["dev"].body, IncludeErrorMarker(p))

\* A document with an unreadable include between two readable ones has been
\* rendered: the marker stands in the answer and the tag after it is expanded.
C6_Witness ==
    /\ Rendered("dev")
    /\ Unreadable = { (* root_http/missing.html *) <<"r","o","o","t","_","h","t","t","p","/","m","i","s","s","i","n","g",".","h","t","m","l">> }
    /\ Len(rs["dev"].reads) = 5
    /\ rs["dev"].reads[4] = (* root_http/missing.html *) <<"r","o","o","t","_","h","t","t","p","/","m","i","s","s","i","n","g",".","h","t","m","l">>
    /\ rs["dev"].reads[5] = (* root_http/b.html *) <<"r","o","o","t","_","h","t","t","p","/","b",".","h","t","m","l">>
    /\ Occurs(rs["dev"].body,
              (* B<!-- Include error: open root_http/missing.html: no such file or directory -->CbD *) <<"B","<","!","-","-"," ","I","n","c","l","u","d","e"," ","e","r","r","o","r",":"," ","o","p","e","n"," ","r","o","o","t","_","h","t","t","p","/","m","i","s","s","i","n","g",".","h","t","m","l",":"," ","n","o"," ","s","u","c","h"," ","f","i","l","e"," ","o","r"," ","d","i","r","e","c","t","o","r","y"," ","-","-",">","C","b","D">>)

\* C7: the expanded document is the flattened text of its source, at every
\* depth of nesting, each include tag's file taken below the root directory
\* whatever file the tag stands in.
C7_Flattening ==
    (Expanded("dev") /\ rs["dev"].source # << >>) =>
        rs["dev"].expanded = Flat(rs["dev"].source)

\* A document has been expanded through three levels of nesting, the innermost
\* tag standing in a file of a subdirectory and naming a file of the root.
C7_Witness ==
    /\ Expanded("dev")
    /\ \E k \in 1..Len(rs["dev"].reads) :
           /\ k + 2 <= Len(rs["dev"].reads)
           /\ rs["dev"].reads[k] = (* root_http/a.html *) <<"r","o","o","t","_","h","t","t","p","/","a",".","h","t","m","l">>
           /\ rs["dev"].reads[k + 1] = (* root_http/sub/c.html *) <<"r","o","o","t","_","h","t","t","p","/","s","u","b","/","c",".","h","t","m","l">>
           /\ rs["dev"].reads[k + 2] = (* root_http/b.html *) <<"r","o","o","t","_","h","t","t","p","/","b",".","h","t","m","l">>
    /\ Occurs(rs["dev"].expanded, (* [a:(c:<% y = \"b\" %><%= y %>)] *) <<"[","a",":","(","c",":","<","%"," ","y"," ","="," ","\"","b","\""," ","%",">","<","%","="," ","y"," ","%",">",")","]">>)
    /\ ~ Occurs(rs["dev"].expanded, (* WRONG *) <<"W","R","O","N","G">>)

\* text holds no match of the include, the code-block or the output form.
NoDirective(text) ==
    /\ NextInclude(text, 1) = 0
    /\ NextCode(text, 1) = 0
    /\ NextOutput(text, 1) = 0

\* C8: a document with no match of the include, code-block or output form is
\* returned unchanged by every pass; no file is read for it and the scope stays
\* as it was seeded.
C8_Identity ==
    \A s \in Servers :
        (rs[s].source # << >> /\ NoDirective(rs[s].source)) =>
            /\ rs[s].reads = << >>
            /\ rs[s].data = rs[s].seed
            /\ rs[s].assigns = << >>
            /\ rs[s].fault = FALSE
            /\ rs[s].pc \in {"code", "output", "done"} => rs[s].expanded = rs[s].source
            /\ rs[s].pc \in {"output", "done"} => rs[s].stripped = rs[s].source
            /\ rs[s].pc = "done" => (rs[s].status = 200 /\ rs[s].body = rs[s].source)

\* A document of plain text, with a "%" and a final line end, has been rendered.
C8_Witness ==
    \E s \in Servers :
        /\ Rendered(s)
        /\ NoDirective(rs[s].source)
        /\ rs[s].source = (* <p>100% plain</p>\n *) <<"<","p",">","1","0","0","%"," ","p","l","a","i","n","<","/","p",">","\n">>
        /\ rs[s].body = rs[s].source

(***************************************************************************)
(* Properties of the compile pipeline.                                     *)
(***************************************************************************)

\* C9: the generated program registers the same handlers, in the same order,
\* as the development server does for the same route table, the catch-all last.
C9_SameRegistrations ==
    (srv["dev"].up /\ srv["compiled"].up) => srv["compiled"].regs = srv["dev"].regs

\* C10: when generateCompiledBinary has returned, or the process has exited,
\* the temporary workspace does not exist.
C10_WorkspaceRemoved ==
    (cp.pc = "returned" \/ cp.pc = "exited") => cp.workspace = NoWorkspace

\* The pipeline has returned with the build's failure, after the workspace, the
\* program and the manifest were made.
C10_Witness ==
    /\ cp.pc = "returned"
    /\ cp.err = "failed to build binary"
    /\ ~ cp.workspace.exists

\* The steps of the compile pipeline, in their order.
Steps ==
    << "scan", "loadRouteConfig", "TempDir", "generateMainGo", "generateGoMod",
       "Abs", "Getwd", "Chdir", "go mod tidy", "go build" >>

\* Step k of the run failed and is not the load of the route configuration.
Failed(k) == ~ cp.ran[k].ok /\ cp.ran[k].step # "loadRouteConfig"

\* C11: the pipeline runs its steps in one order; a step that fails, other than
\* the load of the route configuration, is the last step run, the operation ends
\* with an error, no binary is built and success is not reported; a failed load
\* of the route configuration leaves the route table empty and the pipeline
\* goes on.
C11_PipelineOrder ==
    /\ Len(cp.ran) <= Len(Steps)
    /\ \A k \in 1..Len(cp.ran) : cp.ran[k].step = Steps[k]
    /\ \A k \in 1..Len(cp.ran) :
           Failed(k) => /\ k = Len(cp.ran)
                        /\ cp.pc \in {"returned", "exited"}
                        /\ cp.err # ""
                        /\ cp.exit # 0
                        /\ ~ artifact.built
    /\ (Len(cp.ran) >= 2 /\ ~ cp.ran[2].ok) =>
           /\ cp.routes = << >>
           /\ Len(cp.ran) = 2 => cp.pc = "TempDir"
    /\ cp.exit = 0 =>
           /\ Len(cp.ran) = Len(Steps)
           /\ \A k \in 1..Len(cp.ran) : ~ Failed(k)
           /\ artifact.built

\* The route configuration could not be loaded, the pipeline went on to the
\* dependency download, which failed: the build was not started and the
\* process has exited with an error.
C11_Witness ==
    /\ cp.pc = "exited"
    /\ cp.exit = 1
    /\ Len(cp.ran) = 9
    /\ ~ cp.ran[2].ok
    /\ cp.ran[9] = [step |-> "go mod tidy", ok |-> FALSE]
    /\ ~ artifact.built

(***************************************************************************)
(* Two renders at once: the development server serves req and req2 in two  *)
(* goroutines, whose steps interleave.                                     *)
(***************************************************************************)

\* The two goroutines of the development server.
DevGoroutines == {"dev", Peer}

\* The requests the two goroutines serve.
ConcurrentRequests ==
    { Get((* /late *) <<"/","l","a","t","e">>), Get((* /inc *) <<"/","i","n","c">>), Get((* /peek *) <<"/","p","e","e","k">>), Get((* /inj *) <<"/","i","n","j">>), GetInjected,
      PostInjected, PostField }

InitConcurrent ==
    /\ req \in ConcurrentRequests
    /\ req2 \in ConcurrentRequests
    /\ configFile = [ok |-> FALSE, Routes |-> << >>]
    /\ srv = [s \in Servers |-> [up |-> FALSE, regs |-> << >>]]
    /\ rs = [s \in Goroutines |-> IdleRender]
    /\ cp = [pc |-> "scan", templates |-> << >>, routes |-> << >>,
             workspace |-> NoWorkspace, cwd |-> "original", defers |-> << >>,
             err |-> "", exit |-> -1, ran |-> << >>]
    /\ artifact = NoProgram

NextConcurrent ==
    \/ RunServer
    \/ \E s \in DevGoroutines : Handle(s)
    \/ \E s \in DevGoroutines : IncludeStep(s)
    \/ \E s \in DevGoroutines : CodePass(s)
    \/ \E s \in DevGoroutines : OutputPass(s)

SpecConcurrent == InitConcurrent /\ [][NextConcurrent]_vars

\* The render of request r by the development server with no other render in
\* progress: the file the path names, flattened, then the code-block pass on a
\* freshly seeded scope, then the output pass.
Alone(r) ==
    LET file     == fileBasedHandler(r)
        c        == [method |-> r.method, path |-> r.path, rawQuery |-> r.rawQuery,
                     query |-> r.query, form |-> r.form, host |-> r.host,
                     remoteaddr |-> r.remoteaddr,
                     params |-> << TrimPrefix(r.path, (* / *) <<"/">>) >>]
        expanded == Flat(Disk[RootFile(file)])
        coded    == processCodeExpressions(expanded, SeedData(c))
    IN  [data |-> coded.data,
         body |-> processOutputTags("fs", coded.content, coded.data, c).content]

\* C12: whatever the interleaving of two renders of the development server, each
\* render's scope after its code-block pass and its answer are those of the
\* render run alone: no assignment of one render reaches the other.
C12_RendersIsolated ==
    \A s \in DevGoroutines :
        /\ rs[s].pc \in {"output", "done"} => rs[s].data = Alone(RequestOf(s)).data
        /\ rs[s].pc = "done" =>
               /\ rs[s].status = 200
               /\ rs[s].body = Alone(RequestOf(s)).body

\* Two renders are between their code-block and output passes at the same time:
\* one has assigned x, the other renders a document that shows x and does not
\* assign it.
C12_Witness ==
    /\ rs["dev"].pc = "output"
    /\ rs[Peer].pc = "output"
    /\ (* x *) <<"x">> \in AssignedNames("dev")
    /\ Occurs(rs[Peer].stripped, (* <%= x %> *) <<"<","%","="," ","x"," ","%",">">>)
    /\ (* x *) <<"x">> \notin DOMAIN rs[Peer].data

(***************************************************************************)
(* Properties of the code-block and output passes.                         *)
(***************************************************************************)

\* Spans written as a directive that do not have its grammar: an include tag
\* whose file attribute is not quoted, and an output tag with no expression.
MalformedSpans == { (* <%@include file=a.html %> *) <<"<","%","@","i","n","c","l","u","d","e"," ","f","i","l","e","=","a",".","h","t","m","l"," ","%",">">>, (* <%=%> *) <<"<","%","=","%",">">> }

\* C13: a span written as a directive that does not have the directive's grammar
\* stands in the answer as it stands in the document, and no assignment is made
\* from its text.
C13_MalformedLeftLiteral ==
    \A s \in Servers :
        Rendered(s) =>
            \A m \in MalformedSpans :
                (includeRegex(m, 1) = NoMatch /\ outputRegex(m, 1) = NoMatch
                    /\ Occurs(rs[s].source, m)) =>
                        /\ Occurs(rs[s].body, m)
                        /\ \A k \in 1..Len(rs[s].assigns) :
                               ~ Occurs(m, rs[s].assigns[k].name)

\* The trimmed bodies of the code blocks of text, in order.
RECURSIVE CodeBodies(_, _)
CodeBodies(text, i) ==
    LET k == NextCode(text, i)
        m == codeRegex(text, k)
    IN  IF k = 0 THEN << >>
        ELSE << TrimSpace(SubSeq(text, m.from, m.to)) >> \o CodeBodies(text, m.end + 1)

\* Code-block bodies that are control flow, not assignments.
ControlFlow == { (* if (request.method == \"POST\") { *) <<"i","f"," ","(","r","e","q","u","e","s","t",".","m","e","t","h","o","d"," ","=","="," ","\"","P","O","S","T","\"",")"," ","{">>, (* } else { *) <<"}"," ","e","l","s","e"," ","{">>, (* } *) <<"}">> }

\* C14: when every code block of a document is control flow, the scope after
\* the code-block pass is the scope before it, and an output tag renders as it
\* does with the blocks taken out of the document.
C14_ControlFlowNoEffect ==
    \A s \in Servers :
        LET bodies == CodeBodies(rs[s].expanded, 1)
        IN  ( /\ Rendered(s)
              /\ bodies # << >>
              /\ \A k \in 1..Len(bodies) : bodies[k] \in ControlFlow ) =>
                  /\ rs[s].data = rs[s].seed
                  /\ rs[s].tags
                         = processOutputTags(Engine(s), rs[s].stripped, rs[s].seed,
                                             Context(s)).tags

\* The number of "+" characters of s.
Pluses(s) == Cardinality({ k \in 1..Len(s) : s[k] = "+" })

\* C15: an output tag of the development server that reaches the "+" rule with
\* two or more "+" renders its trimmed expression unchanged.
C15_ManyPluses ==
    Rendered("dev") =>
        \A k \in 1..Len(rs["dev"].tags) :
            LET t == rs["dev"].tags[k]
            IN  (FirstRule(t.expr, rs["dev"].data) = 5 /\ Pluses(t.expr) >= 2) =>
                    t.text = t.expr

\* Tags with two "+" between numbers, between nothing and between names have
\* been rendered as they were written.
C15_Witness ==
    /\ Rendered("dev")
    /\ \E k \in 1..Len(rs["dev"].tags) :
           rs["dev"].tags[k] = [expr |-> (* 1 + 2 + 3 *) <<"1"," ","+"," ","2"," ","+"," ","3">>, text |-> (* 1 + 2 + 3 *) <<"1"," ","+"," ","2"," ","+"," ","3">>]
    /\ \E k \in 1..Len(rs["dev"].tags) :
           rs["dev"].tags[k] = [expr |-> (* 1++2 *) <<"1","+","+","2">>, text |-> (* 1++2 *) <<"1","+","+","2">>]
    /\ \E k \in 1..Len(rs["dev"].tags) :
           rs["dev"].tags[k] = [expr |-> (* a+b+c *) <<"a","+","b","+","c">>, text |-> (* a+b+c *) <<"a","+","b","+","c">>]

(***************************************************************************)
(* Termination of the include pass.                                        *)
(***************************************************************************)

\* The files the include tags of text name.
RECURSIVE DirectIncludes(_, _)
DirectIncludes(text, i) ==
    LET k == NextInclude(text, i)
        m == includeRegex(text, k)
    IN  IF k = 0 THEN {}
        ELSE {RootFile(SubSeq(text, m.from, m.to))} \cup DirectIncludes(text, m.end + 1)

\* The files reachable from the files of S through the include tags of the
\* readable ones.
RECURSIVE Reachable(_)
Reachable(S) ==
    LET T == S \cup UNION { DirectIncludes(Disk[f], 1) : f \in S \cap DOMAIN Disk }
    IN  IF T = S THEN S ELSE Reachable(T)

\* A readable file reachable from text includes itself, directly or through
\* other files.
Cyclic(text) ==
    \E f \in Reachable(DirectIncludes(text, 1)) \cap DOMAIN Disk :
        f \in Reachable(DirectIncludes(Disk[f], 1))

\* The greatest of the numbers of S, 0 for none.
Greatest(S) == IF S = {} THEN 0 ELSE CHOOSE x \in S : \A y \in S : y <= x

\* The number of calls of processIncludes that are in progress at the deepest
\* point of the expansion of text, whose include graph is acyclic.
RECURSIVE NestingDepth(_)
NestingDepth(text) ==
    1 + Greatest({ NestingDepth(Disk[f]) : f \in DirectIncludes(text, 1) \cap DOMAIN Disk })

\* C16: the include pass of a document with a cyclic include graph never
\* returns; that of a document with an acyclic one is never more calls deep
\* than the graph is, and reads no more files than the graph has include tags,
\* so that it returns after that many steps.
C16_Termination ==
    rs["dev"].source # << >> =>
        IF Cyclic(rs["dev"].source)
        THEN rs["dev"].pc = "includes"
        ELSE /\ Len(rs["dev"].reads) <= Len(IncludeTargets(rs["dev"].source))
             /\ Len(rs["dev"].stack) <= NestingDepth(rs["dev"].source)
             /\ NestingDepth(rs["dev"].source) <= MaxDepth
             /\ Expanded("dev") => rs["dev"].reads = IncludeTargets(rs["dev"].source)

\* The include pass of a document that includes a file that includes the
\* document is as many calls deep as the model follows it, having read the two
\* files in turn.
C16_Witness ==
    /\ rs["dev"].pc = "includes"
    /\ Cyclic(rs["dev"].source)
    /\ Len(rs["dev"].stack) = MaxDepth
    /\ Len(rs["dev"].reads) = MaxDepth - 1
    /\ rs["dev"].reads[1] = (* root_http/pong.html *) <<"r","o","o","t","_","h","t","t","p","/","p","o","n","g",".","h","t","m","l">>
    /\ rs["dev"].reads[2] = (* root_http/ping.html *) <<"r","o","o","t","_","h","t","t","p","/","p","i","n","g",".","h","t","m","l">>


\* C17: no pass of the render of a document with an acyclic include graph
\* raises a run-time fault, whatever the right-hand sides of its assignments:
\* a finished render has answered 200 with the text of the output pass.
C17_NoFault ==
    \A s \in Servers :
        (rs[s].source # << >> /\ ~ Cyclic(rs[s].source)) =>
            /\ ~ rs[s].fault
            /\ rs[s].pc = "done" => rs[s].status = 200

(***************************************************************************)
(* Request values shaped like directives.                                  *)
(***************************************************************************)

\* Request r carries Injected in a query parameter or a form field.
Carries(r) ==
    \/ \E k \in DOMAIN r.query : r.query[k] = Injected
    \/ \E k \in DOMAIN r.form : r.form[k] = Injected

\* The entries of scope data that processTemplate did not seed.
Unseeded(data) == [n \in DOMAIN data \ SeededNames |-> data[n]]

\* Goroutines s and t have rendered the same document for requests that differ
\* in the values of their query parameters and form fields only.
SameButValues(s, t) ==
    /\ Rendered(s)
    /\ Rendered(t)
    /\ RequestOf(s).method = RequestOf(t).method
    /\ RequestOf(s).path = RequestOf(t).path
    /\ DOMAIN RequestOf(s).query = DOMAIN RequestOf(t).query
    /\ DOMAIN RequestOf(s).form = DOMAIN RequestOf(t).form

\* The render of s has put Injected into the document in place of an output
\* tag: it stands in the answer as it is, the files read are those the include
\* tags of the document name, and the assignments made are the document's.
InjectedInert(s) ==
    (Rendered(s) /\ \E k \in 1..Len(rs[s].tags) : rs[s].tags[k].text = Injected) =>
        /\ Occurs(rs[s].body, Injected)
        /\ rs[s].reads = IncludeTargets(rs[s].source)
        /\ rs[s].assigns = processCodeExpressions(Flat(rs[s].source), << >>).assigns

\* C18 as stated: text the output pass substituted is not read as a directive,
\* and two renders of one document that differ in request values only read the
\* same files and end with the same scope.
C18_SameScope ==
    /\ \A s \in DevGoroutines : InjectedInert(s)
    /\ \A s, t \in DevGoroutines :
           SameButValues(s, t) =>
               /\ rs[s].reads = rs[t].reads
               /\ rs[s].data = rs[t].data

\* C18: text the output pass substituted is not read as a directive, and two
\* renders of one document that differ in request values only read the same
\* files and end with the same scope but for the entries processTemplate seeded
\* from the request.
C18_SameUnseededScope ==
    /\ \A s \in DevGoroutines : InjectedInert(s)
    /\ \A s, t \in DevGoroutines :
           SameButValues(s, t) =>
               /\ rs[s].reads = rs[t].reads
               /\ Unseeded(rs[s].data) = Unseeded(rs[t].data)
               /\ rs[s].assigns = rs[t].assigns

\* Two renders of inj.html are done, one for q=1 and one for a q that holds the
\* three directives, which stand in its answer.
C18_Witness ==
    /\ req = Get((* /inj *) <<"/","i","n","j">>)
    /\ req2 = GetInjected
    /\ SameButValues("dev", Peer)
    /\ rs[Peer].tags[1].text = Injected
    /\ Occurs(rs[Peer].body, Injected)
    /\ rs["dev"].data # rs[Peer].data

====
